---------------------------- MODULE Spec2Model ----------------------------
(***************************************************************************)
(* Chemical Equipment Parameter Visualizer.                                *)
(*                                                                         *)
(* Model of the upload/summary pipeline (api/views.py UploadCSVView), of   *)
(* the per-user store of uploaded datasets (api/models.py), of the chart   *)
(* renderers (create_chart_image, create_plot_image) and of the report     *)
(* composers (ReportView, ReportFromSummaryView, generate_nice_pdf).       *)
(***************************************************************************)
EXTENDS Integers, Sequences, FiniteSets, TLC

VARIABLES
    datasets,   \* rows of the UploadedDataset table
    files,      \* the files held by the upload storage: name and content
    nextId,     \* next primary key / file name the database hands out
    clock,      \* wall clock behind uploaded_at (auto_now_add)
    req,        \* per request slot: the state of one UploadCSVView.post call
    uploaded,   \* every row ever inserted, with what its upload computed
    response,   \* the last response UploadCSVView.post returned
    selected,   \* the file a client has picked for its next upload
    chart,      \* the chart render request in hand and its result
    doc,        \* the report composition in hand: cursor, pages, drawn items
    client      \* the desktop client: tokens, buttons, summary and cards

vars ==
    <<datasets, files, nextId, clock, req, uploaded, response, selected,
      chart, doc, client>>

(***************************************************************************)
(* Bounds of the model.                                                    *)
(***************************************************************************)
MaxRows == 2        \* rows of an uploaded CSV
MaxReq == 2         \* upload requests that may be in flight together
MaxUploads == 6     \* uploads accepted in one behaviour
MaxOther == 1       \* of these, uploads by the second user

(***************************************************************************)
(* Generic helpers.                                                        *)
(***************************************************************************)
Range(s) == {s[i] : i \in DOMAIN s}

RECURSIVE SeqSum(_)
SeqSum(s) == IF s = <<>> THEN 0 ELSE Head(s) + SeqSum(Tail(s))

RECURSIVE SetSum(_, _)
SetSum(f, S) ==
    IF S = {} THEN 0
    ELSE LET x == CHOOSE y \in S : TRUE IN f[x] + SetSum(f, S \ {x})

\* All sequences over S of length at most n.
SeqsUpTo(S, n) == UNION {[1..k -> S] : k \in 0..n}

(***************************************************************************)
(* The uploaded CSV as pandas sees it.                                     *)
(*                                                                         *)
(* A column name is a sequence of tokens, " " being one whitespace         *)
(* character; a cell is the raw text between two commas.                   *)
(***************************************************************************)
WS == " "

\* Mutant of strip: only leading whitespace is dropped (lstrip).
RECURSIVE lstrip(_)
lstrip(name) ==
    IF name = <<>> THEN name
    ELSE IF Head(name) = WS THEN lstrip(Tail(name))
    ELSE name

\* str.strip(): drop leading and trailing whitespace, keep inner whitespace.
RECURSIVE strip(_)
strip(name) ==
    IF name = <<>> THEN name
    ELSE IF Head(name) = WS THEN strip(Tail(name))
    ELSE IF name[Len(name)] = WS THEN strip(SubSeq(name, 1, Len(name) - 1))
    ELSE name

EquipmentName == <<"Equipment", WS, "Name">>
TypeCol == <<"Type">>
FlowrateCol == <<"Flowrate">>
PressureCol == <<"Pressure">>
TemperatureCol == <<"Temperature">>

required == {EquipmentName, TypeCol, FlowrateCol, PressureCol, TemperatureCol}

numeric_cols == <<FlowrateCol, PressureCol, TemperatureCol>>

\* sorted(required): the order Python gives the five names.
sorted_required ==
    <<EquipmentName, FlowrateCol, PressureCol, TemperatureCol, TypeCol>>

\* Raw cell texts the model draws from.
NumLiterals == {"5", "10", "20", "30"}
BoolLiterals == {"True", "False"}

NumOf(text) ==
    CASE text = "5" -> 5
      [] text = "10" -> 10
      [] text = "20" -> 20
      [] text = "30" -> 30
      [] text = "True" -> 1
      [] text = "False" -> 0

\* A parsed cell: t is "nan", "num", "bool" or "str"; v is the cell text.
NaN == [t |-> "nan", v |-> ""]
isna(x) == x.t = "nan"

\* pd.read_csv: the empty cell is NaN; a column whose other cells are all
\* numbers is numeric, one whose other cells are all True/False is boolean,
\* any other column keeps its cells as strings.
InferCell(text, others) ==
    IF text = "" THEN NaN
    ELSE IF others \subseteq NumLiterals THEN [t |-> "num", v |-> text]
    ELSE IF others \subseteq BoolLiterals THEN [t |-> "bool", v |-> text]
    ELSE [t |-> "str", v |-> text]

read_csv(csv) ==
    [columns |-> csv.header,
     rows |-> [i \in DOMAIN csv.rows |->
                 [j \in DOMAIN csv.header |->
                     InferCell(csv.rows[i][j],
                               {csv.rows[k][j] : k \in DOMAIN csv.rows} \ {""})]]]

\* df[col]: the cells of the column labelled col, in row order.
ColIndex(df, col) == CHOOSE j \in DOMAIN df.columns : df.columns[j] = col
Column(df, col) == [i \in DOMAIN df.rows |-> df.rows[i][ColIndex(df, col)]]

\* pd.to_numeric(errors='coerce') on one cell.
to_numeric(x) ==
    IF x.t \in {"num", "bool"} THEN x
    ELSE IF x.t = "str" /\ x.v \in NumLiterals THEN [t |-> "num", v |-> x.v]
    ELSE NaN

dropna(series) == SelectSeq(series, LAMBDA x : ~isna(x))

\* Mutant of mean: NaN cells count as 0 instead of being skipped.
mean_fillna(series) ==
    LET kept == SelectSeq(series, LAMBDA x : ~(x.t = "nan"))
    IN  IF series = <<>> THEN <<>>
        ELSE <<SeqSum([i \in DOMAIN kept |-> NumOf(kept[i].v)]), Len(series)>>

\* Series.mean(): NaN cells are skipped; the mean is kept as the exact
\* fraction <<sum, count>>.  None is <<>>.
None == <<>>
mean(series) ==
    LET kept == dropna(series)
    IN  IF kept = <<>> THEN None
        ELSE <<SeqSum([i \in DOMAIN kept |-> NumOf(kept[i].v)]), Len(kept)>>

\* str(k) of a group key.
str(x) == x.v

\* The key of a dict entry once the summary is JSON: a bool key is written
\* true/false, a string key is itself, a number key is its digits.
JsonKey(x) ==
    IF x.t = "bool" THEN (IF x.v = "True" THEN "true" ELSE "false") ELSE x.v

\* Series.value_counts().to_dict(): NaN is left out (dropna=True).
value_counts(series) ==
    LET kept == Range(dropna(series))
    IN  [k \in {JsonKey(x) : x \in kept} |->
            Cardinality({i \in DOMAIN series :
                            ~isna(series[i]) /\ JsonKey(series[i]) = k})]

\* The cells of series at the row positions where keep holds.
RECURSIVE Pick(_, _, _)
Pick(series, keep, i) ==
    IF i > Len(series) THEN <<>>
    ELSE (IF keep[i] THEN <<series[i]>> ELSE <<>>) \o Pick(series, keep, i + 1)

\* df.groupby('Type')[col].mean(), keys through str(k); NaN keys are left out.
groupby_mean(df, col) ==
    LET types == Column(df, TypeCol)
        cells == Column(df, col)
        keys == Range(dropna(types))
    IN  [k \in {str(x) : x \in keys} |->
            mean(Pick(cells,
                      [i \in DOMAIN types |->
                          ~isna(types[i]) /\ str(types[i]) = k], 1))]

\* Lines 195-226: coerce the numeric columns and compute the summary.
coerce(df) ==
    [df EXCEPT !.rows =
        [i \in DOMAIN df.rows |->
            [j \in DOMAIN df.columns |->
                IF df.columns[j] \in Range(numeric_cols)
                THEN to_numeric(df.rows[i][j]) ELSE df.rows[i][j]]]]

\* df.head(n).
head(df, n) ==
    [df EXCEPT !.rows = SubSeq(df.rows, 1,
                               IF Len(df.rows) < n THEN Len(df.rows) ELSE n)]

\* df.to_dict(orient='records'): one dict a row, its keys in column order.
to_dict_records(df) ==
    [i \in DOMAIN df.rows |->
        [j \in DOMAIN df.columns |->
            [key |-> df.columns[j], value |-> df.rows[i][j]]]]

PreviewRows == 8   \* df.head(8)

summarize(df0) ==
    LET df == coerce(df0)
    IN  [total_count |-> Len(df.rows),
         averages |-> [c \in Range(numeric_cols) |-> mean(Column(df, c))],
         type_distribution |-> value_counts(Column(df, TypeCol)),
         per_type_averages |->
            [c \in Range(numeric_cols) |-> groupby_mean(df, c)]]

(***************************************************************************)
(* UploadCSVView.post, in the steps between which another request may run. *)
(***************************************************************************)
Users == {"alice", "bob"}
Req == 1..MaxReq

KEEP == 5   \* qs_user[5:]

NoSummary == [total_count |-> 0]

\* A slot no request runs in.
IdleReq ==
    [pc |-> "idle", user |-> "alice", obj |-> 0, to_delete |-> {},
     summary |-> NoSummary, preview_rows |-> <<>>]

NoResponse == [status |-> 0]

\* The upload is refused before anything is read from the rows.
validate(csv) ==
    IF ~csv.file
    THEN [status |-> 400, detail |-> "No file provided"]
    ELSE IF ~csv.parses
    THEN [status |-> 400, detail |-> "Failed to read CSV"]
    ELSE LET columns == [j \in DOMAIN csv.header |-> strip(csv.header[j])]
         IN  IF ~(required \subseteq Range(columns))
             THEN [status |-> 400, detail |-> "CSV missing required columns",
                   required |-> sorted_required, found |-> columns]
             ELSE [status |-> 0]

\* df[col] of a label that two columns carry is a DataFrame, and
\* pd.to_numeric raises TypeError on it: the view has no handler for that.
raises(csv) ==
    LET columns == [j \in DOMAIN csv.header |-> strip(csv.header[j])]
    IN  \E c \in Range(numeric_cols) :
            Cardinality({j \in DOMAIN columns : columns[j] = c}) > 1

\* The upload storage.  A file is saved under uploads/<date>/<the name the
\* client gave>, all uploads of the model falling on one date; when that
\* name is taken the storage appends a suffix no other file has (here the
\* number of the save, `fresh`).  A name is free again once its file is
\* deleted.  Deleting a name that has no file does nothing.
Filename == "data.csv"

exists(name) == \E f \in files : f.name = name

get_available_name(name, fresh) ==
    IF ~exists([base |-> name, suffix |-> 0])
    THEN [base |-> name, suffix |-> 0]
    ELSE [base |-> name, suffix |-> fresh]

storage_open(name) == (CHOOSE f \in files : f.name = name).content

storage_delete(stored, names) == {f \in stored : f.name \notin names}

\* Mutant of post_reject: the file is stored before the request is refused.
post_reject_saving(r, resp) ==
    /\ response' = resp
    /\ datasets' = datasets \cup
            {[id |-> nextId, user |-> "alice", uploaded_at |-> clock,
              csv_file |-> [name |-> get_available_name(Filename, nextId)],
              summary |-> [total_count |-> 0]]}
    /\ files' = files \cup {[name |-> get_available_name(Filename, nextId),
                             content |-> resp]}
    /\ UNCHANGED <<nextId, clock, uploaded, req>>

\* A request that ends before the create: the response is all it leaves.
post_reject(r, resp) ==
    /\ response' = resp
    /\ UNCHANGED <<datasets, files, nextId, clock, uploaded, req>>

\* Lines 240-249: the file is saved and the row inserted.
post_create(r, u, csv) ==
    LET df == [read_csv(csv) EXCEPT
                  !.columns = [j \in DOMAIN csv.header |-> strip(csv.header[j])]]
        summary == summarize(df)
        preview_rows == to_dict_records(head(coerce(df), PreviewRows))
        obj == [id |-> nextId, user |-> u, uploaded_at |-> clock,
                csv_file |-> [name |-> get_available_name(Filename, nextId)],
                summary |-> summary]
    IN  /\ datasets' = datasets \cup {obj}
        /\ files' = files \cup {[name |-> obj.csv_file.name, content |-> csv]}
        /\ nextId' = nextId + 1
        /\ clock' = clock + 1
        /\ uploaded' = uploaded \cup
                {[id |-> obj.id, user |-> u, uploaded_at |-> obj.uploaded_at,
                  csv |-> csv, summary |-> summary,
                  preview_rows |-> preview_rows]}
        /\ req' = [req EXCEPT ![r] = [IdleReq EXCEPT !.pc = "created",
                                        !.user = u, !.obj = obj.id,
                                        !.summary = summary,
                                        !.preview_rows = preview_rows]]
        /\ UNCHANGED response

\* Lines 160-255.
post_begin(r, u, csv) ==
    LET verdict == validate(csv)
    IN  IF verdict.status # 0 THEN post_reject(r, verdict)
        ELSE IF raises(csv)
        THEN post_reject(r, [status |-> 500, detail |-> "TypeError"])
        ELSE post_create(r, u, csv)

\* Mutant of older_than_newest: the slice starts one row too late.
older_than_newest_off_by_one(rows, u, n) ==
    LET mine == {d \in rows : d.user = u}
    IN  {d \in mine :
            Cardinality({e \in mine : e.uploaded_at > d.uploaded_at}) > n}

\* filter(user=u).order_by('-uploaded_at')[n:]: the rows of u that have at
\* least n rows of u uploaded after them.
older_than_newest(rows, u, n) ==
    LET mine == {d \in rows : d.user = u}
    IN  {d \in mine :
            Cardinality({e \in mine : e.uploaded_at > d.uploaded_at}) >= n}

\* Lines 259-267: to_delete = list(qs_user[5:]), then
\* old.csv_file.delete(save=False) for each row listed, an exception of the
\* storage being passed over.
post_prune_query(r, storage_fails) ==
    LET to_delete == older_than_newest(datasets, req[r].user, KEEP)
    IN  /\ req[r].pc = "created"
        /\ req' = [req EXCEPT ![r].pc = "listed",
                              ![r].to_delete = to_delete]
        /\ files' = IF storage_fails THEN files
                    ELSE storage_delete(files,
                            {d.csv_file.name : d \in to_delete})
        /\ UNCHANGED <<datasets, nextId, clock, uploaded, response>>

\* models.delete_file_on_record_delete, for the rows a delete removed: the
\* file that now has the row's name is deleted, an exception of the storage
\* being passed over.
delete_file_on_record_delete(stored, gone, storage_fails) ==
    IF storage_fails THEN stored
    ELSE storage_delete(stored, {d.csv_file.name : d \in gone})

\* Lines 268-295: the rows with the primary keys listed are deleted, each
\* delete followed by post_delete; an exception of the database is logged
\* and leaves the rows; then 201.
post_prune_delete(r, db_fails, storage_fails) ==
    LET pks == {d.id : d \in req[r].to_delete}
        gone == IF db_fails THEN {} ELSE {d \in datasets : d.id \in pks}
    IN  /\ req[r].pc = "listed"
        /\ files' = delete_file_on_record_delete(files, gone, storage_fails)
        /\ datasets' = datasets \ gone
        /\ req' = [req EXCEPT ![r] = IdleReq]
        /\ response' = [status |-> 201, id |-> req[r].obj,
                        summary |-> req[r].summary,
                        preview_rows |-> req[r].preview_rows]
        /\ UNCHANGED <<nextId, clock, uploaded>>

(***************************************************************************)
(* The uploads the model draws.                                            *)
(***************************************************************************)
\* A request without a file part.
NoFileCsv == [file |-> FALSE, parses |-> FALSE, header |-> <<>>, rows |-> <<>>]

PlainHeader ==
    <<EquipmentName, TypeCol, FlowrateCol, PressureCol, TemperatureCol>>
PaddedHeader ==
    <<EquipmentName, <<WS, "Type", WS>>, <<"Flowrate", WS>>, PressureCol,
      <<WS, "Temperature">>>>
ExtraHeader == PlainHeader \o << <<"Notes">> >>
LowerHeader ==
    <<EquipmentName, <<"type">>, FlowrateCol, PressureCol, TemperatureCol>>
ShortHeader == <<EquipmentName, TypeCol, FlowrateCol, PressureCol>>
DupHeader == PlainHeader \o << <<WS, "Flowrate">> >>

TypeCells == {"Pump", "Valve", ""}
FlowrateCells == {"", "abc", "10", "20"}
PressureCells == {"", "5"}
TemperatureCells == {"", "30"}

PlainRows ==
    {<<"E1", t, f, p, m>> : t \in TypeCells, f \in FlowrateCells,
                            p \in PressureCells, m \in TemperatureCells}

SampleRows == << <<"E1", "Pump", "10", "5", "">>, <<"E1", "", "abc", "", "30">> >>
BoolRows == << <<"E1", "True", "10", "5", "30">>, <<"E1", "False", "20", "", "30">> >>

Csv(header, rows) ==
    [file |-> TRUE, parses |-> TRUE, header |-> header, rows |-> rows]

UnparsableCsv ==
    [file |-> TRUE, parses |-> FALSE, header |-> <<>>, rows |-> <<>>]

\* Uploads with another header than the plain one carry the sample rows.
VariantCsvs ==
    {Csv(PlainHeader, BoolRows),
     Csv(PaddedHeader, SampleRows),
     Csv(LowerHeader, SampleRows),
     Csv(ExtraHeader, [i \in DOMAIN SampleRows |-> SampleRows[i] \o <<"x">>]),
     Csv(DupHeader, [i \in DOMAIN SampleRows |-> SampleRows[i] \o <<"10">>]),
     Csv(ShortHeader,
         [i \in DOMAIN SampleRows |-> SubSeq(SampleRows[i], 1, 4)])}

SummaryCsvs ==
    {NoFileCsv, UnparsableCsv} \cup VariantCsvs
        \cup {Csv(PlainHeader, rows) : rows \in SeqsUpTo(PlainRows, MaxRows)}

StoreCsvs ==
    {NoFileCsv, UnparsableCsv, Csv(ShortHeader, <<>>),
     Csv(PlainHeader, SampleRows)}

(***************************************************************************)
(* Specifications.                                                         *)
(***************************************************************************)
NoChart == [pc |-> "idle"]
NoDoc == [pc |-> "idle"]
NoClient == [pc |-> "closed"]

EmptyStore ==
    /\ datasets = {}
    /\ files = {}
    /\ nextId = 1
    /\ clock = 1
    /\ uploaded = {}
    /\ response = NoResponse

\* One upload, drawn from every CSV of the model, on an empty store: the
\* request is in hand from the start.
InitSummary ==
    /\ EmptyStore
    /\ req = [r \in Req |-> IdleReq]
    /\ selected \in SummaryCsvs
    /\ chart = NoChart
    /\ doc = NoDoc
    /\ client = NoClient

SummaryUpload ==
    /\ req[1].pc = "idle"
    /\ response = NoResponse
    /\ post_begin(1, "alice", selected)
    /\ UNCHANGED <<selected, client, chart, doc>>

SummaryPruneQuery ==
    /\ post_prune_query(1, FALSE)
    /\ UNCHANGED <<selected, client, chart, doc>>

SummaryPruneDelete ==
    /\ post_prune_delete(1, FALSE, FALSE)
    /\ UNCHANGED <<selected, client, chart, doc>>

NextSummary ==
    \/ SummaryUpload
    \/ SummaryPruneQuery
    \/ SummaryPruneDelete

SpecSummary == InitSummary /\ [][NextSummary]_vars

\* Uploads of several users, interleaved at the database operations.
InitStore ==
    /\ EmptyStore
    /\ req = [r \in Req |-> IdleReq]
    /\ selected = NoFileCsv
    /\ chart = NoChart
    /\ doc = NoDoc
    /\ client = NoClient

\* A slot is free when no request runs in it; a new request takes the
\* lowest free slot.
Free(r) == req[r].pc = "idle"

StoreUpload(r, u, csv) ==
    /\ Free(r)
    /\ \A q \in Req : q < r => ~Free(q)
    /\ nextId <= MaxUploads
    /\ u = "bob" => Cardinality({d \in uploaded : d.user = u}) < MaxOther
    /\ post_begin(r, u, csv)
    /\ UNCHANGED <<selected, client, chart, doc>>

StorePruneQuery(r) ==
    /\ post_prune_query(r, FALSE)
    /\ UNCHANGED <<selected, client, chart, doc>>

StorePruneDelete(r) ==
    /\ post_prune_delete(r, FALSE, FALSE)
    /\ UNCHANGED <<selected, client, chart, doc>>

NextStore ==
    \/ \E r \in Req, u \in Users, csv \in StoreCsvs : StoreUpload(r, u, csv)
    \/ \E r \in Req : StorePruneQuery(r)
    \/ \E r \in Req : StorePruneDelete(r)

SpecStore == InitStore /\ [][NextStore]_vars

(***************************************************************************)
(* Chart renderers.  A series is a dict in insertion order: the sequence   *)
(* of its values, the i-th label being the key of the i-th value.  A value *)
(* is None or a number n, written <<n>>.                                   *)
(***************************************************************************)
MaxCats == 2        \* categories of a series, every combination of values

Num(n) == <<n>>
CountValues == {None, Num(-1), Num(0), Num(2)}

HasNone(vals) == \E i \in DOMAIN vals : vals[i] = None
HasNegative(vals) == \E i \in DOMAIN vals : vals[i] # None /\ vals[i][1] < 0

\* Python's sum(): called on a list that holds None it raises TypeError,
\* which the callers below test with HasNone first.
RECURSIVE sum(_)
sum(vals) == IF vals = <<>> THEN 0 ELSE Head(vals)[1] + sum(Tail(vals))

ChartTypes == {"bar", "pie", "line", "hist", "scatter"}

SignatureBytes == 8     \* len(b'\x89PNG\r\n\x1a\n')
PngBytes == SignatureBytes + 1  \* savefig writes the signature and chunks

Image(shows) == [is_none |-> FALSE, nbytes |-> PngBytes, shows |-> shows]
NoImage == [is_none |-> TRUE, nbytes |-> 0, shows |-> "nothing"]

\* Whether the plotting calls of one chart raise.  sum() on a None and
\* pie() on a negative wedge size always do; what bar(), plot() and hist()
\* do with a None among the heights depends on the plotting library, and
\* is left to `fault`.
plot_raises(chart_type, counts, nums, fault) ==
    CASE chart_type = "pie" ->
            HasNone(counts) \/ (sum(counts) # 0 /\ HasNegative(counts))
      [] chart_type = "hist" -> HasNone(nums) /\ fault
      [] OTHER -> HasNone(counts) /\ fault

\* views.create_chart_image: the image, or None when anything raised.
create_chart_image(summary, chart_type, fault) ==
    LET counts == summary.type_distribution
        avgs == SelectSeq(summary.averages, LAMBDA v : v # None)
        nums == IF chart_type # "hist" THEN <<>>
                ELSE IF avgs # <<>> THEN avgs ELSE counts
        shows == CASE chart_type = "pie" ->
                        IF sum(counts) = 0 THEN "No data" ELSE "pie"
                   [] chart_type = "line" -> "line"
                   [] chart_type = "hist" ->
                        IF nums # <<>> THEN "hist" ELSE "No numeric data"
                   [] OTHER -> "bars"
    IN  IF plot_raises(chart_type, counts, nums, fault)
        THEN NoImage
        ELSE LET buf == Image(shows)
             IN  IF buf.nbytes = 0 THEN NoImage ELSE buf

\* pyqt_app.create_plot_image: the image, an error placeholder when the
\* plotting raised, and the bare PNG signature when the placeholder could
\* not be drawn either (`fault`).
HBarAt == 8     \* use_hbar = n >= 8

or_zero(v) == IF v = None \/ v = Num(0) THEN Num(0) ELSE v

create_plot_image(values_dict, chart_type, fault) ==
    LET vals == [i \in DOMAIN values_dict |-> or_zero(values_dict[i])]
        n == IF Len(vals) > 1 THEN Len(vals) ELSE 1
        use_hbar == n >= HBarAt
        shows == CASE chart_type = "bar" ->
                        IF use_hbar THEN "hbars" ELSE "bars"
                   [] chart_type = "line" -> "line"
                   [] chart_type = "pie" ->
                        IF sum(vals) = 0 THEN "No data" ELSE "pie"
                   [] chart_type = "hist" ->
                        IF vals # <<>> THEN "hist" ELSE "No numeric data"
                   [] OTHER -> "bars"
        buf == Image(shows)
    IN  IF ~(chart_type = "pie" /\ sum(vals) # 0 /\ HasNegative(vals))
        THEN IF buf.nbytes = 0 THEN Image("No chart (placeholder)") ELSE buf
        ELSE IF ~fault
             THEN Image("Error creating chart")
             ELSE [is_none |-> FALSE, nbytes |-> SignatureBytes,
                   shows |-> "nothing"]

\* The chart of one analysis section, plotted in line (lines 665-767).
adhoc_analysis_plot(data_dict, param_chart_type) ==
    LET vals == [i \in DOMAIN data_dict |->
                    IF data_dict[i] # None THEN data_dict[i] ELSE Num(0)]
    IN  IF param_chart_type = "pie" /\ sum(vals) # 0 /\ HasNegative(vals)
        THEN NoImage
        ELSE Image(CASE param_chart_type = "pie" ->
                            IF sum(vals) = 0 THEN "bars" ELSE "pie"
                     [] param_chart_type = "line" -> "line"
                     [] param_chart_type = "hist" -> "hist"
                     [] OTHER -> "bars")

\* DesktopApp.render_overview_chart: what the overview canvas shows.  No
\* labels give 'No data' before anything is plotted; an exception of the
\* plotting leaves the text of the error; a chart type without a branch
\* leaves the axes with their title.
OverviewHBarAt == 10    \* use_hbar = n >= 10

render_overview_chart(summary, chart_type, fault) ==
    LET counts == summary.type_distribution
        avgs == SelectSeq(summary.averages, LAMBDA v : v # None)
        nums == IF chart_type # "hist" THEN <<>>
                ELSE IF avgs # <<>> THEN avgs ELSE counts
        n == IF Len(counts) > 1 THEN Len(counts) ELSE 1
        use_hbar == n >= OverviewHBarAt
    IN  IF counts = <<>> THEN "No data"
        ELSE IF plot_raises(chart_type, counts, nums, fault) THEN "Error"
        ELSE CASE chart_type = "bar" ->
                        IF use_hbar THEN "hbars" ELSE "bars"
               [] chart_type = "pie" ->
                        IF sum(counts) = 0 THEN "No data" ELSE "pie"
               [] chart_type = "line" -> "line"
               [] chart_type = "hist" -> "hist"
               [] OTHER -> "nothing"

\* The series handed to a renderer: every series of up to MaxCats values,
\* and the uniform series at the horizontal-bar thresholds.
Series ==
    SeqsUpTo(CountValues, MaxCats)
        \cup {[i \in 1..n |-> v] : v \in CountValues,
                                    n \in {HBarAt, OverviewHBarAt}}

AveragesDicts == {<<>>, <<None>>, <<None, Num(2)>>}

RenderServer(series, averages, chart_type, fault) ==
    /\ chart' =
        [pc |-> "returned", fn |-> "create_chart_image",
         series |-> series, averages |-> averages, chart_type |-> chart_type,
         result |-> create_chart_image(
                        [type_distribution |-> series, averages |-> averages],
                        chart_type, fault)]
    /\ UNCHANGED <<datasets, files, nextId, clock, req, uploaded, response,
                   selected, client, doc>>

RenderDesktop(series, chart_type, fault) ==
    /\ chart' =
        [pc |-> "returned", fn |-> "create_plot_image",
         series |-> series, averages |-> <<>>, chart_type |-> chart_type,
         result |-> create_plot_image(series, chart_type, fault)]
    /\ UNCHANGED <<datasets, files, nextId, clock, req, uploaded, response,
                   selected, client, doc>>

\* The overview tab draws on its canvas; no image is made.
RenderOverview(series, averages, chart_type, fault) ==
    /\ chart' =
        [pc |-> "drawn", fn |-> "DesktopApp.render_overview_chart",
         series |-> series, averages |-> averages, chart_type |-> chart_type,
         result |-> [is_none |-> FALSE, nbytes |-> 0,
                     shows |-> render_overview_chart(
                        [type_distribution |-> series, averages |-> averages],
                        chart_type, fault)]]
    /\ UNCHANGED <<datasets, files, nextId, clock, req, uploaded, response,
                   selected, client, doc>>

\* The plotting of one analysis chart in ReportFromSummaryView.post; a
\* parameter without values is skipped before anything is plotted.
RenderAnalysis(series, chart_type) ==
    /\ series # <<>>
    /\ chart' =
        [pc |-> "plotted", fn |-> "ReportFromSummaryView.post",
         series |-> series, averages |-> <<>>, chart_type |-> chart_type,
         result |-> adhoc_analysis_plot(series, chart_type)]
    /\ UNCHANGED <<datasets, files, nextId, clock, req, uploaded, response,
                   selected, client, doc>>

InitChart ==
    /\ EmptyStore
    /\ req = [r \in Req |-> IdleReq]
    /\ selected = NoFileCsv
    /\ chart = NoChart
    /\ doc = NoDoc
    /\ client = NoClient

NextChart ==
    \/ \E s \in Series, a \in AveragesDicts, t \in ChartTypes,
          fault \in BOOLEAN : RenderServer(s, a, t, fault)
    \/ \E s \in Series, t \in ChartTypes, fault \in BOOLEAN :
          RenderDesktop(s, t, fault)
    \/ \E s \in Series, a \in AveragesDicts, t \in ChartTypes,
          fault \in BOOLEAN : RenderOverview(s, a, t, fault)
    \/ \E s \in Series, t \in ChartTypes : RenderAnalysis(s, t)

SpecChart == InitChart /\ [][NextChart]_vars

(***************************************************************************)
(* Report composers.  A canvas is the vertical cursor y, the number of the *)
(* page being drawn and the items drawn so far; an item records the        *)
(* section it belongs to, its page and its lowest y coordinate.            *)
(***************************************************************************)
MaxAverages == 22   \* entries of the averages dict of a posted summary
MaxTypes == 33      \* entries of the type_distribution of a stored summary

PageWidth == 612    \* letter
PageHeight == 792

NewCanvas == [y |-> PageHeight, page |-> 1, items |-> <<>>, raised |-> FALSE]

\* An item drawn for one analysis parameter carries its name.
drawn_for(st, kind, section, what, bottom, param) ==
    [st EXCEPT !.items =
        Append(@, [kind |-> kind, section |-> section, what |-> what,
                   page |-> st.page, bottom |-> bottom, param |-> param,
                   cells |-> <<>>])]

drawn(st, kind, section, what, bottom) ==
    drawn_for(st, kind, section, what, bottom, <<>>)

\* A row of the preview table carries the cells drawn in it, left to right:
\* cell k spans from left / per to right / per points from the left edge of
\* the page.
drawn_row(st, what, bottom, cells) ==
    [st EXCEPT !.items =
        Append(@, [kind |-> "row", section |-> "preview", what |-> what,
                   page |-> st.page, bottom |-> bottom, param |-> <<>>,
                   cells |-> cells])]

showPage(st, y) == [st EXCEPT !.page = @ + 1, !.y = y]

down(st, dy) == [st EXCEPT !.y = @ - dy]

\* dict.get(key, {}) or {}
get(d, k) == IF k \in DOMAIN d THEN d[k] ELSE <<>>

\* analysis_chart_types.get(param, 'bar')
get_chart_type(d, k) == IF k \in DOMAIN d THEN d[k] ELSE "bar"

\* ReportFromSummaryView.post: draw_section_header, a filled rectangle from
\* y - 20 to y + 4 with the text on it; the cursor moves down by 36.
draw_section_header(st, section, text) ==
    down(drawn(st, "header", section, text, st.y - 20), 36)

adhoc_title(st) ==
    LET a == drawn(st, "text", "title",
                   "Chemical Equipment Analysis Report", PageHeight - 50)
        b == drawn(a, "text", "title", "Generated by", PageHeight - 70)
        c == drawn(b, "text", "title", "Date", PageHeight - 85)
        d == drawn(c, "line", "title", "rule", PageHeight - 95)
    IN  [d EXCEPT !.y = PageHeight - 120]

\* for k, v in averages.items(): one line each, 12 apart.
\* The i-th of them is drawn 12 * (i - 1) below the first, whatever the cursor.
adhoc_averages(st, averages) ==
    [st EXCEPT
        !.items = @ \o [i \in DOMAIN averages |->
                          [kind |-> "text", section |-> "summary",
                           what |-> "average", page |-> st.page,
                           bottom |-> st.y - 12 * (i - 1), param |-> <<>>,
                           cells |-> <<>>]],
        !.y = @ - 12 * Len(averages)]

adhoc_summary(st, request) ==
    IF ~request.include.summary THEN st
    ELSE LET a == draw_section_header(st, "summary", "Summary Statistics")
             b == down(drawn(a, "text", "summary",
                             "Total Equipment Records", a.y), 20)
             c == down(drawn(b, "text", "summary",
                             "Parameter Averages:", b.y), 14)
             d == adhoc_averages(c, request.summary.averages)
         IN  down(d, 8)

\* Mutant of adhoc_chart_failed: the failure is logged and nothing is drawn.
adhoc_chart_failed_silently(st, section, text, param) == st

\* In the place of a chart that could not be drawn: one line of text, and
\* the cursor 20 down.
adhoc_chart_failed(st, section, text, param) ==
    down(drawn_for(st, "text", section, text, st.y, param), 20)

adhoc_type_chart(st, request) ==
    IF ~request.include.type_chart THEN st
    ELSE LET a == IF st.y < 280 THEN showPage(st, PageHeight - 50) ELSE st
             b == draw_section_header(a, "type_chart",
                                      "Equipment Type Distribution")
             chart_buf == create_chart_image(request.summary,
                                             request.chart_type,
                                             request.fault = "plot")
         IN  IF ~chart_buf.is_none
             THEN IF request.fault # "embed"
                  THEN down(drawn(b, "image", "type_chart", chart_buf.shows,
                                  b.y - 300), 320)
                  ELSE adhoc_chart_failed(
                            b, "type_chart",
                            "Failed to render type distribution chart.", <<>>)
             ELSE adhoc_chart_failed(
                    b, "type_chart",
                    "Type distribution chart not available.", <<>>)

params_to_draw == <<FlowrateCol, PressureCol, TemperatureCol>>

\* Mutant of adhoc_analysis_page_check: the section is drawn wherever the
\* cursor stands.
adhoc_analysis_page_check_skipped(st) == st

\* if y < 350: p.showPage(); y = height - 50
adhoc_analysis_page_check(st) ==
    IF st.y < 350 THEN showPage(st, PageHeight - 50) ELSE st

RECURSIVE adhoc_analysis_params(_, _, _)
adhoc_analysis_params(st, request, params) ==
    IF params = <<>> THEN st
    ELSE LET param == Head(params)
             data_dict == get(request.summary.per_type_averages, param)
         IN  IF data_dict = <<>>
             THEN adhoc_analysis_params(st, request, Tail(params))
             ELSE LET a == adhoc_analysis_page_check(st)
                      b == down(drawn_for(a, "header", "analysis",
                                          "Analysis - Average by Type",
                                          a.y - 20, param), 36)
                      img == adhoc_analysis_plot(
                                data_dict,
                                get_chart_type(request.analysis_chart_types,
                                               param))
                      c == IF ~img.is_none /\ request.fault # "embed"
                           THEN down(drawn_for(b, "image", "analysis",
                                               img.shows, b.y - 280, param),
                                     300)
                           ELSE adhoc_chart_failed(
                                    b, "analysis",
                                    "Failed to draw analysis chart", param)
                  IN  adhoc_analysis_params(c, request, Tail(params))

\* Mutant of adhoc_params_to_draw: mode 'single' draws the one parameter the
\* request names.
adhoc_params_to_draw_single(analysis_cfg) ==
    IF analysis_cfg.mode = "all" THEN params_to_draw
    ELSE <<analysis_cfg.parameter>>

\* if analysis_mode == 'all': params_to_draw = [...] else: params_to_draw =
\* [...], the same three names in both branches (lines 634-637);
\* analysis_cfg's 'parameter' is not read.
adhoc_params_to_draw(analysis_cfg) ==
    IF analysis_cfg.mode = "all" THEN params_to_draw
    ELSE params_to_draw

adhoc_analysis(st, request) ==
    IF ~request.include.analysis THEN st
    ELSE IF DOMAIN request.summary.per_type_averages = {}
    THEN LET a == IF st.y < 200 THEN showPage(st, PageHeight - 50) ELSE st
             b == draw_section_header(a, "analysis", "Parameter Analysis")
         IN  down(drawn(b, "text", "analysis",
                        "Per-type averages not available for this dataset.",
                        b.y), 20)
    ELSE adhoc_analysis_params(st, request,
                               adhoc_params_to_draw(request.analysis_cfg))

\* cols = list(preview_rows[0].keys()); col_width = (width - 144) /
\* max(1, len(cols)); x = 72; for col in cols: drawString(x + 4, ...);
\* x += col_width.  Every key is a column.
adhoc_cells(cols) ==
    [k \in 1..cols |->
        [left |-> 72 * cols + (k - 1) * (PageWidth - 144),
         right |-> 72 * cols + k * (PageWidth - 144), per |-> cols]]

\* for row in preview_rows[:10]: a page check, a band under every other
\* row, the cells, 14 down.  preview_rows[0].keys() raises AttributeError
\* when the rows are not dicts, after the section header was drawn.
adhoc_preview_row(st, row_count, cols) ==
    down(drawn_row(st, "row",
                   IF row_count % 2 = 0 THEN st.y - 14 ELSE st.y - 10,
                   adhoc_cells(cols)), 14)

RECURSIVE adhoc_preview_rows(_, _, _, _)
adhoc_preview_rows(st, rows, row_count, cols) ==
    IF row_count >= rows \/ row_count >= 10 THEN st
    ELSE IF st.y < 100
    THEN adhoc_preview_rows(
            adhoc_preview_row(showPage(st, PageHeight - 50), row_count, cols),
            rows, row_count + 1, cols)
    ELSE adhoc_preview_rows(adhoc_preview_row(st, row_count, cols), rows,
                            row_count + 1, cols)

\* Mutant of adhoc_preview: the include toggle is not consulted.
adhoc_preview_untoggled(st, request) ==
    IF ~(request.preview_rows.rows > 0)
    THEN st
    ELSE LET a == IF st.y < 250 THEN showPage(st, PageHeight - 50) ELSE st
             b == draw_section_header(a, "preview", "Data Preview")
         IN  IF ~request.preview_rows.dicts
             THEN [b EXCEPT !.raised = TRUE]
             ELSE IF request.preview_rows.cols > 0
             THEN adhoc_preview_rows(
                    down(drawn_row(b, "columns", b.y - 18,
                                   adhoc_cells(request.preview_rows.cols)),
                         20),
                    request.preview_rows.rows, 0, request.preview_rows.cols)
             ELSE down(drawn(b, "text", "preview", "No data available.",
                             b.y), 20)

adhoc_preview(st, request) ==
    IF ~(request.include.preview_rows /\ request.preview_rows.rows > 0)
    THEN st
    ELSE LET a == IF st.y < 250 THEN showPage(st, PageHeight - 50) ELSE st
             b == draw_section_header(a, "preview", "Data Preview")
         IN  IF ~request.preview_rows.dicts
             THEN [b EXCEPT !.raised = TRUE]
             ELSE IF request.preview_rows.cols > 0
             THEN adhoc_preview_rows(
                    down(drawn_row(b, "columns", b.y - 18,
                                   adhoc_cells(request.preview_rows.cols)),
                         20),
                    request.preview_rows.rows, 0, request.preview_rows.cols)
             ELSE down(drawn(b, "text", "preview", "No data available.",
                             b.y), 20)

\* ReportFromSummaryView.post, lines 526-848.
adhoc_compose(request) ==
    adhoc_preview(
        adhoc_analysis(
            adhoc_type_chart(
                adhoc_summary(adhoc_title(NewCanvas), request),
                request),
            request),
        request)

\* ReportView.get: header lines, the summary with every average and every
\* type entry, the chart, the first rows of the stored file.
stored_title(st) ==
    LET a == drawn(st, "text", "title", "Chemical Equipment Report",
                   PageHeight - 72)
        b == drawn(a, "text", "title", "File", PageHeight - 90)
        c == drawn(b, "text", "title", "Uploaded at", PageHeight - 104)
    IN  [c EXCEPT !.y = PageHeight - 130]

\* for k, v in averages.items(): one line each, 12 apart, whatever the
\* cursor.
stored_averages(st, averages) ==
    [st EXCEPT
        !.items = @ \o [i \in DOMAIN averages |->
                          [kind |-> "text", section |-> "summary",
                           what |-> "average", page |-> st.page,
                           bottom |-> st.y - 12 * (i - 1), param |-> <<>>,
                           cells |-> <<>>]],
        !.y = @ - 12 * Len(averages)]

\* for t, count in type_dist.items(): the line, 12 down, then the page check.
RECURSIVE stored_type_entries(_, _)
stored_type_entries(st, type_dist) ==
    IF type_dist = <<>> THEN st
    ELSE LET a == down(drawn(st, "text", "summary", "type entry", st.y), 12)
         IN  IF a.y < 180
             THEN stored_type_entries(showPage(a, PageHeight - 72),
                                      Tail(type_dist))
             ELSE stored_type_entries(a, Tail(type_dist))

stored_summary(st, request) ==
    LET a == down(drawn(st, "text", "summary", "Summary", st.y), 16)
        b == down(drawn(a, "text", "summary", "Total equipment", a.y), 14)
        c == down(drawn(b, "text", "summary", "Averages:", b.y), 12)
        d == down(stored_averages(c, request.summary.averages), 6)
        f == down(drawn(d, "text", "summary", "Type distribution", d.y), 14)
    IN  stored_type_entries(f, request.summary.type_distribution)

stored_chart(st, request) ==
    LET chart_buf == create_chart_image(request.summary, request.chart_type,
                                        request.fault = "plot")
        img_h == 240
        y_img == st.y - img_h - 10
        a == IF y_img < 72 THEN showPage(st, PageHeight - 72 - img_h)
             ELSE [st EXCEPT !.y = y_img]
    IN  IF chart_buf.is_none \/ request.fault = "embed" THEN st
        ELSE down(drawn(a, "image", "type_chart", chart_buf.shows, a.y), 12)

\* cols = preview.columns.tolist(); x = 72; for col in cols:
\* drawString(x, ...); x += 110.  Every column of the file, 110 apart.
stored_cells(cols) ==
    [k \in 1..cols |->
        [left |-> 72 + 110 * (k - 1), right |-> 72 + 110 * k, per |-> 1]]

\* for _, row in df.head(8).iterrows(): the cells, 12 down, then the page
\* check.
RECURSIVE stored_preview_rows(_, _, _, _)
stored_preview_rows(st, rows, i, cols) ==
    IF i >= rows \/ i >= 8 THEN st
    ELSE LET a == down(drawn_row(st, "row", st.y, stored_cells(cols)), 12)
         IN  IF a.y < 72
             THEN stored_preview_rows(showPage(a, PageHeight - 72), rows,
                                      i + 1, cols)
             ELSE stored_preview_rows(a, rows, i + 1, cols)

stored_preview(st, request) ==
    IF request.preview_rows.rows = 0 THEN st
    ELSE LET a == IF st.y < 200 THEN showPage(st, PageHeight - 72) ELSE st
             b == down(drawn(a, "text", "preview", "Preview (first rows)",
                             a.y), 18)
             c == down(drawn_row(b, "columns", b.y,
                                 stored_cells(request.preview_rows.cols)), 14)
         IN  stored_preview_rows(c, request.preview_rows.rows, 0,
                                 request.preview_rows.cols)

\* ReportView.get, lines 380-484.
stored_compose(request) ==
    stored_preview(
        stored_chart(stored_summary(stored_title(NewCanvas), request),
                     request),
        request)

\* generate_nice_pdf: the flowables appended to `flow`, in order (Spacers
\* left out); Platypus lays them out on pages at doc.build.
flowed_for(flow, kind, section, what, param) ==
    Append(flow, [kind |-> kind, section |-> section, what |-> what,
                  param |-> param, cells |-> <<>>])

flowed(flow, kind, section, what) == flowed_for(flow, kind, section, what, <<>>)

\* RLImage(img_buf, ...) reads a file-like image at once: it raises when the
\* image library fails and when the bytes are no more than the PNG signature.
nice_embed_raises(img_buf, request) ==
    request.fault = "embed" \/ img_buf.nbytes <= SignatureBytes

nice_header(flow) ==
    flowed(flow, "table", "title", "Chemical Equipment Report")

nice_summary(flow, request) ==
    IF ~(request.include.summary /\ request.summary.present) THEN flow
    ELSE LET a == flowed(flow, "table", "summary", "Total equipment")
         IN  IF request.summary.averages # <<>>
             THEN flowed(a, "table", "summary", "Averages")
             ELSE a

nice_type_chart(flow, request) ==
    IF ~(request.include.type_chart /\ request.summary.present) THEN flow
    ELSE LET td == request.summary.type_distribution
             img_buf == create_plot_image(td, request.chart_type,
                                          request.fault = "plot")
         IN  IF td = <<>> THEN flow
             ELSE IF nice_embed_raises(img_buf, request)
             THEN flowed(flow, "text", "type_chart",
                         "Type distribution chart unavailable.")
             ELSE flowed(flowed(flow, "text", "type_chart",
                                "Type distribution"),
                         "image", "type_chart", img_buf.shows)

RECURSIVE nice_analysis_params(_, _, _)
nice_analysis_params(flow, request, params) ==
    IF params = <<>> THEN flow
    ELSE LET param == Head(params)
             data_dict == get(request.summary.per_type_averages, param)
             chart_type == get_chart_type(request.analysis_chart_types, param)
             img_buf == create_plot_image(data_dict, chart_type,
                                          request.fault = "plot")
             a == flowed_for(flow, "header", "analysis", "Analysis", param)
             b == IF nice_embed_raises(img_buf, request)
                  THEN flowed_for(a, "text", "analysis", "Chart unavailable",
                                  param)
                  ELSE flowed_for(a, "image", "analysis", img_buf.shows,
                                  param)
         IN  IF data_dict = <<>>
             THEN nice_analysis_params(flow, request, Tail(params))
             ELSE nice_analysis_params(b, request, Tail(params))

nice_analysis(flow, request) ==
    IF ~(request.include.analysis /\ request.summary.present) THEN flow
    ELSE nice_analysis_params(flow, request, request.analysis_params_order)

\* cols = list(preview_rows[0].keys())[:6]; colWidths = doc.width /
\* max(1, len(cols)) for each of them, doc.width being the letter page less
\* the margins of 48; the table starts at the left margin.
nice_cells(cols) ==
    LET n == IF cols > 6 THEN 6 ELSE cols
    IN  [k \in 1..n |->
            [left |-> 48 * n + (k - 1) * (PageWidth - 96),
             right |-> 48 * n + k * (PageWidth - 96), per |-> n]]

\* data = [header] + one row for each of preview_rows[:8], the rows of one
\* Table.
nice_preview_data(cols, rows) ==
    [i \in 1..((IF rows > 8 THEN 8 ELSE rows) + 1) |->
        [kind |-> "row", section |-> "preview",
         what |-> IF i = 1 THEN "columns" ELSE "row", param |-> <<>>,
         cells |-> nice_cells(cols)]]

nice_preview(flow, request) ==
    IF ~(request.include.preview_rows /\ request.preview_rows.rows > 0)
    THEN flow
    ELSE flowed(flow, "text", "preview", "Preview (first rows)")
            \o nice_preview_data(request.preview_rows.cols,
                                 request.preview_rows.rows)

nice_footer(flow) ==
    flowed(flow, "text", "footer",
           "Generated by Chemical Equipment Parameter Visualizer")

\* generate_nice_pdf, lines 234-354.
generate_nice_pdf(request) ==
    nice_footer(
        nice_preview(
            nice_analysis(
                nice_type_chart(nice_summary(nice_header(<<>>), request),
                                request),
                request),
            request))

(***************************************************************************)
(* Report requests.                                                        *)
(***************************************************************************)
Toggles ==
    [summary : BOOLEAN, type_chart : BOOLEAN, analysis : BOOLEAN,
     preview_rows : BOOLEAN]

Averages(n) == [i \in 1..n |-> Num(2)]
AverageCounts == {0, Len(numeric_cols), MaxAverages}

TypeDistributions == {<<>>, <<Num(2), Num(2)>>, <<Num(-1), Num(2)>>}

\* A column of the summary that is none of the three parameters.
OtherCol == <<"Viscosity">>

PerTypeAverages ==
    {[k \in {} |-> <<>>],
     [k \in Range(numeric_cols) |-> <<>>],
     [k \in Range(numeric_cols) |-> <<Num(2), None>>],
     [k \in Range(numeric_cols) |->
         IF k = PressureCol THEN <<Num(2)>> ELSE <<>>],
     [k \in {FlowrateCol, OtherCol} |-> <<Num(-1), Num(2)>>]}

PostedSummaries ==
    [present : {TRUE}, averages : {Averages(n) : n \in AverageCounts},
     type_distribution : TypeDistributions,
     per_type_averages : PerTypeAverages]

EmptySummary ==
    [present |-> FALSE, averages |-> <<>>, type_distribution |-> <<>>,
     per_type_averages |-> [k \in {} |-> <<>>]]

\* preview_rows: how many rows, how many keys in each, and whether the rows
\* are JSON objects at all.
Previews ==
    {[rows |-> 0, cols |-> 0, dicts |-> TRUE],
     [rows |-> 3, cols |-> 5, dicts |-> TRUE],
     [rows |-> 3, cols |-> 0, dicts |-> TRUE],
     [rows |-> 12, cols |-> 7, dicts |-> TRUE],
     [rows |-> 3, cols |-> 0, dicts |-> FALSE]}

\* What fails in the libraries underneath: nothing, the plotting calls whose
\* outcome depends on the library, the decoding of a chart image, or the
\* writing of the document at p.save().
Faults == {"none", "plot", "embed", "save"}

AnalysisChartTypes ==
    {[k \in {} |-> "bar"], [k \in Range(numeric_cols) |-> "pie"]}

ParamOrders == {params_to_draw, <<PressureCol>>}

\* include.analysis of a posted request: its mode and the parameter it
\* names.  The desktop's generator has neither.
AnalysisCfgs ==
    {[mode |-> "all", parameter |-> None],
     [mode |-> "single", parameter |-> FlowrateCol],
     [mode |-> "single", parameter |-> PressureCol]}

NoAnalysisCfg == [mode |-> "all", parameter |-> None]

ReportRequests(to, orders, cfgs) ==
    [to : {to}, summary : PostedSummaries \cup {EmptySummary},
     preview_rows : Previews, include : Toggles, chart_type : {"bar", "pie"},
     analysis_chart_types : AnalysisChartTypes,
     analysis_params_order : orders, analysis_cfg : cfgs, fault : Faults]

\* What ReportView.get reads of a stored dataset: the summary its upload
\* computed (three averages, counts of at least one) and the rows of its file.
StoredSummaries ==
    [present : {TRUE},
     averages : {<<Num(2), Num(2), Num(2)>>, <<Num(2), None, None>>},
     type_distribution : {[i \in 1..n |-> Num(2)] : n \in {0, 2, MaxTypes}},
     per_type_averages : {[k \in Range(numeric_cols) |-> <<Num(2)>>]}]

StoredRequests ==
    [to : {"report"}, summary : StoredSummaries,
     preview_rows : {[rows |-> 0, cols |-> 5, dicts |-> TRUE],
                     [rows |-> 3, cols |-> 5, dicts |-> TRUE],
                     [rows |-> 12, cols |-> 6, dicts |-> TRUE]},
     chart_type : ChartTypes, fault : Faults]

InitCompose ==
    /\ EmptyStore
    /\ req = [r \in Req |-> IdleReq]
    /\ selected = NoFileCsv
    /\ chart = NoChart
    /\ client = NoClient
    /\ \E r \in ReportRequests("report-from-summary", {params_to_draw},
                                  AnalysisCfgs)
                    \cup ReportRequests("desktop", ParamOrders,
                                        {NoAnalysisCfg})
                    \cup StoredRequests :
          doc = [pc |-> "requested", request |-> r]

\* Mutant of report_response: what was drawn before the exception is
\* returned as the document.
report_response_partial(fn, request, st) ==
    [pc |-> "done", fn |-> fn, request |-> request, status |-> 200,
     pdf |-> TRUE, detail |-> "", items |-> st.items, pages |-> st.page]

\* The end of both server views: the PDF, or on any exception of the
\* composition a 500 with a fixed message and none of the document.
report_response(fn, request, st) ==
    IF st.raised \/ request.fault = "save"
    THEN [pc |-> "done", fn |-> fn, request |-> request, status |-> 500,
          pdf |-> FALSE, detail |-> "Failed to generate PDF",
          items |-> <<>>, pages |-> 0]
    ELSE [pc |-> "done", fn |-> fn, request |-> request, status |-> 200,
          pdf |-> TRUE, detail |-> "", items |-> st.items, pages |-> st.page]

ReportFromSummaryPost ==
    /\ doc.pc = "requested"
    /\ doc.request.to = "report-from-summary"
    /\ doc' = report_response("ReportFromSummaryView.post", doc.request,
                              adhoc_compose(doc.request))
    /\ UNCHANGED <<datasets, files, nextId, clock, req, uploaded, response,
                   selected, client, chart>>

ReportGet ==
    /\ doc.pc = "requested"
    /\ doc.request.to = "report"
    /\ doc' = report_response("ReportView.get", doc.request,
                              stored_compose(doc.request))
    /\ UNCHANGED <<datasets, files, nextId, clock, req, uploaded, response,
                   selected, client, chart>>

\* generate_nice_pdf has no handler of its own: preview rows that are not
\* dicts (line 336) and a failing doc.build leave its caller without a file.
nice_raises(request) ==
    \/ request.include.preview_rows /\ request.preview_rows.rows > 0
            /\ ~request.preview_rows.dicts
    \/ request.fault = "save"

DownloadPdf ==
    /\ doc.pc = "requested"
    /\ doc.request.to = "desktop"
    /\ doc' = IF nice_raises(doc.request)
              THEN [pc |-> "done", fn |-> "generate_nice_pdf",
                    request |-> doc.request, pdf |-> FALSE, items |-> <<>>]
              ELSE [pc |-> "done", fn |-> "generate_nice_pdf",
                    request |-> doc.request, pdf |-> TRUE,
                    items |-> generate_nice_pdf(doc.request)]
    /\ UNCHANGED <<datasets, files, nextId, clock, req, uploaded, response,
                   selected, client, chart>>

NextCompose ==
    \/ ReportFromSummaryPost
    \/ ReportGet
    \/ DownloadPdf

SpecCompose == InitCompose /\ [][NextCompose]_vars

(***************************************************************************)
(* matplotlib.pyplot under the server's renders.  pyplot keeps one list of *)
(* open figures for the whole process; the figure opened or used last is   *)
(* the current one, and bar(), pie(), savefig() and close() without an     *)
(* argument act on the current figure.                                     *)
(***************************************************************************)
MaxCalls == 3       \* renders begun in one run

Threads == {1, 2}

\* plt.figure(): a new blank figure, opened by call id, becomes current.
plt_figure(figs, id) == Append(figs, [by |-> id, drawn |-> {}])

\* plt.gcf(): the current figure; without an open figure one is opened.
plt_gcf(figs, id) == IF figs = <<>> THEN plt_figure(figs, id) ELSE figs

\* plt.bar(), plt.pie(), plt.plot(), plt.hist(), plt.text(): the series of
\* call id is drawn on the current figure.
plt_plot(figs, id) ==
    LET open == plt_gcf(figs, id)
    IN  [open EXCEPT ![Len(open)].drawn = @ \cup {id}]

\* plt.savefig(buf): the calls whose series the written image shows.
plt_savefig(figs, id) ==
    LET open == plt_gcf(figs, id) IN open[Len(open)].drawn

\* plt.close(): the current figure is closed, the one before it becomes
\* current; nothing happens without an open figure.
plt_close(figs) ==
    IF figs = <<>> THEN figs ELSE SubSeq(figs, 1, Len(figs) - 1)

\* The call that opened the figure plt.close() closes, in a set.
plt_close_target(figs) == IF figs = <<>> THEN {} ELSE {figs[Len(figs)].by}

IdleCall ==
    [pc |-> "idle", id |-> 0, fn |-> "", series |-> <<>>, image |-> {},
     closed |-> {}]

\* A pie of these series: the second makes plt.pie raise ValueError, the
\* third sums to zero.
PlotSeries == {<<Num(2)>>, <<Num(-1), Num(2)>>, <<Num(0)>>}

PlotFns == {"create_chart_image", "ReportFromSummaryView.post"}

\* Whether the plotting calls of the render raise.
call_raises(call) ==
    IF call.fn = "create_chart_image"
    THEN plot_raises("pie", call.series, <<>>, FALSE)
    ELSE adhoc_analysis_plot(call.series, "pie").is_none

\* views.py 55 and 667: plt.figure(...).
RenderBegin(t, fn, series) ==
    /\ chart.calls[t].pc \in {"idle", "done"}
    /\ chart.started < MaxCalls
    /\ chart' = [chart EXCEPT
            !.started = @ + 1,
            !.figs = plt_figure(@, chart.started + 1),
            !.calls[t] = [IdleCall EXCEPT !.pc = "opened",
                                          !.id = chart.started + 1,
                                          !.fn = fn, !.series = series]]
    /\ UNCHANGED <<datasets, files, nextId, clock, req, uploaded, response,
                   selected, client, doc>>

\* views.py 57-100 and 680-757: the plotting calls, which may raise.
RenderPlot(t) ==
    LET call == chart.calls[t]
    IN  /\ call.pc = "opened"
        /\ chart' = IF call_raises(call)
                    THEN [chart EXCEPT !.calls[t].pc = "raised"]
                    ELSE [chart EXCEPT !.calls[t].pc = "plotted",
                                       !.figs = plt_plot(@, call.id)]
        /\ UNCHANGED <<datasets, files, nextId, clock, req, uploaded,
                       response, selected, client, doc>>

\* views.py 102-103 and 758-765: plt.tight_layout(); plt.savefig(buf).
RenderSave(t) ==
    LET call == chart.calls[t]
    IN  /\ call.pc = "plotted"
        /\ chart' = [chart EXCEPT
                !.calls[t].pc = "saved",
                !.calls[t].image = plt_savefig(chart.figs, call.id),
                !.figs = plt_gcf(@, call.id)]
        /\ UNCHANGED <<datasets, files, nextId, clock, req, uploaded,
                       response, selected, client, doc>>

\* views.py 104-109 and 766-779: plt.close(), and the image is returned or
\* embedded.
RenderClose(t) ==
    LET call == chart.calls[t]
    IN  /\ call.pc = "saved"
        /\ chart' = [chart EXCEPT
                !.calls[t].pc = "done",
                !.calls[t].closed = plt_close_target(chart.figs),
                !.figs = plt_close(@)]
        /\ UNCHANGED <<datasets, files, nextId, clock, req, uploaded,
                       response, selected, client, doc>>

\* The handlers: create_chart_image calls plt.close() and returns None
\* (views.py 111-117); the analysis chart draws its error line and goes on
\* (views.py 780-791).
RenderExcept(t) ==
    LET call == chart.calls[t]
    IN  /\ call.pc = "raised"
        /\ chart' = IF call.fn = "create_chart_image"
                    THEN [chart EXCEPT
                            !.calls[t].pc = "done",
                            !.calls[t].closed = plt_close_target(chart.figs),
                            !.figs = plt_close(@)]
                    ELSE [chart EXCEPT !.calls[t].pc = "done"]
        /\ UNCHANGED <<datasets, files, nextId, clock, req, uploaded,
                       response, selected, client, doc>>

InitPyplot ==
    /\ EmptyStore
    /\ req = [r \in Req |-> IdleReq]
    /\ selected = NoFileCsv
    /\ chart = [pc |-> "pyplot", figs |-> <<>>, started |-> 0,
                calls |-> [t \in Threads |-> IdleCall]]
    /\ doc = NoDoc
    /\ client = NoClient

\* One render after the other, in one thread.
NextRender ==
    \/ \E fn \in PlotFns, series \in PlotSeries : RenderBegin(1, fn, series)
    \/ RenderPlot(1)
    \/ RenderSave(1)
    \/ RenderClose(1)
    \/ RenderExcept(1)

SpecRender == InitPyplot /\ [][NextRender]_vars

\* Renders in two request threads, interleaved at the pyplot calls.
NextPyplot ==
    \/ \E t \in Threads, fn \in PlotFns, series \in PlotSeries :
          RenderBegin(t, fn, series)
    \/ \E t \in Threads : RenderPlot(t)
    \/ \E t \in Threads : RenderSave(t)
    \/ \E t \in Threads : RenderClose(t)
    \/ \E t \in Threads : RenderExcept(t)

SpecPyplot == InitPyplot /\ [][NextPyplot]_vars

(***************************************************************************)
(* The read endpoints on the store: HistoryView, DatasetSummaryView and    *)
(* ReportView, between the steps of uploads.                               *)
(***************************************************************************)
\* get_object_or_404(UploadedDataset, pk=pk, user=request.user): the rows the
\* lookup matches, none or one.
get_object_any_user(rows, pk, u) == {d \in rows : d.id = pk}

get_object(rows, pk, u) == {d \in rows : d.id = pk /\ d.user = u}

NotFound(fn, u, pk) ==
    [fn |-> fn, user |-> u, pk |-> pk, status |-> 404, detail |-> "Not found."]

\* order_by('-uploaded_at').
RECURSIVE order_by_uploaded_at_desc(_)
order_by_uploaded_at_desc(rows) ==
    IF rows = {} THEN <<>>
    ELSE LET d == CHOOSE x \in rows :
                      \A e \in rows : e.uploaded_at <= x.uploaded_at
         IN  <<d>> \o order_by_uploaded_at_desc(rows \ {d})

\* Mutant of history_query: the rows of every user.
history_query_all_users(rows, u) ==
    LET ordered == order_by_uploaded_at_desc(rows)
    IN  SubSeq(ordered, 1, IF Len(ordered) < KEEP THEN Len(ordered) ELSE KEEP)

\* filter(user=request.user).order_by('-uploaded_at')[:5].
history_query(rows, u) ==
    LET ordered == order_by_uploaded_at_desc({d \in rows : d.user = u})
    IN  SubSeq(ordered, 1, IF Len(ordered) < KEEP THEN Len(ordered) ELSE KEEP)

\* UploadedDatasetSerializer plus csv_local_path.
serialize(d) ==
    [id |-> d.id, uploaded_at |-> d.uploaded_at, summary |-> d.summary,
     csv_file |-> d.csv_file.name, csv_local_path |-> d.csv_file.name]

\* HistoryView.get.
history_get(u) ==
    LET instances == history_query(datasets, u)
    IN  [fn |-> "HistoryView.get", user |-> u, status |-> 200,
         data |-> [i \in DOMAIN instances |-> serialize(instances[i])]]

\* The stored file as the read views load it: pd.read_csv of the content.
\* A row whose file is gone makes the read raise.
file_missing(obj) == ~exists(obj.csv_file.name)

\* Lines 338-351: the preview DatasetSummaryView.get reads back.
read_stored(obj) ==
    LET df == read_csv(storage_open(obj.csv_file.name))
    IN  [df EXCEPT !.columns =
            [j \in DOMAIN df.columns |-> strip(df.columns[j])]]

read_preview_rows(obj) ==
    IF file_missing(obj) THEN <<>>
    ELSE to_dict_records(head(read_stored(obj), PreviewRows))

\* Mutant of summary_of: the summary is computed again from the preview.
summary_of_preview(obj) == summarize(head(read_stored(obj), PreviewRows))

\* obj.summary or {}.
summary_of(obj) == obj.summary

\* DatasetSummaryView.get.
summary_get(u, pk) ==
    LET found == get_object(datasets, pk, u)
        obj == CHOOSE d \in found : TRUE
    IN  IF found = {} THEN NotFound("DatasetSummaryView.get", u, pk)
        ELSE [fn |-> "DatasetSummaryView.get", user |-> u, pk |-> pk,
              status |-> 200, summary |-> summary_of(obj),
              preview_rows |-> read_preview_rows(obj)]

\* The values of a dict, in the order of its keys.
RECURSIVE dict_values(_)
dict_values(d) ==
    IF DOMAIN d = {} THEN <<>>
    ELSE LET k == CHOOSE x \in DOMAIN d : TRUE
         IN  <<d[k]>> \o dict_values([x \in DOMAIN d \ {k} |-> d[x]])

\* A stored mean as the charts and the composer see it: None, or a number
\* with the sign of the mean (its numerator).
json_number(m) == IF m = None THEN None ELSE Num(m[1])

\* A stored summary as ReportView.get reads it.
stored_summary_of(summary) ==
    LET per_type == summary.per_type_averages
    IN  [present |-> TRUE,
         averages |-> [i \in DOMAIN numeric_cols |->
                          json_number(summary.averages[numeric_cols[i]])],
         type_distribution |->
            LET counts == dict_values(summary.type_distribution)
            IN  [i \in DOMAIN counts |-> Num(counts[i])],
         per_type_averages |->
            [c \in Range(numeric_cols) |->
                LET means == dict_values(per_type[c])
                IN  [i \in DOMAIN means |-> json_number(means[i])]]]

\* Lines 367-376 and 457: the rows of the stored file, none when it cannot
\* be read.
stored_preview_of(obj) ==
    IF file_missing(obj) THEN [rows |-> 0, cols |-> 0, dicts |-> TRUE]
    ELSE [rows |-> Len(storage_open(obj.csv_file.name).rows),
          cols |-> Len(storage_open(obj.csv_file.name).header),
          dicts |-> TRUE]

\* ReportView.get.
report_get(u, pk, chart_type, fault) ==
    LET found == get_object(datasets, pk, u)
        obj == CHOOSE d \in found : TRUE
        request == [to |-> "report", user |-> u, pk |-> pk,
                    summary |-> stored_summary_of(summary_of(obj)),
                    preview_rows |-> stored_preview_of(obj),
                    chart_type |-> chart_type, fault |-> fault]
    IN  IF found = {} THEN NotFound("ReportView.get", u, pk)
        ELSE report_response("ReportView.get", request,
                             stored_compose(request))

\* Files with more rows than a preview holds, each row with its own name.
EquipmentNames == <<"E1", "E2", "E3", "E4", "E5", "E6", "E7", "E8", "E9">>
LongRows ==
    [i \in DOMAIN EquipmentNames |->
        <<EquipmentNames[i], "Pump", IF i = 2 THEN "abc" ELSE "10", "5", "30">>]
NumericRows == << <<"E1", "Pump", "10", "5", "30">>,
                  <<"E2", "Valve", "20", "5", "30">> >>

ReadCsvs ==
    {Csv(PlainHeader, SampleRows), Csv(PaddedHeader, NumericRows),
     Csv(PlainHeader, LongRows), Csv(PlainHeader, NumericRows)}

\* Ad-hoc report requests posted while datasets are stored.
ReadReportRequests ==
    {r \in ReportRequests("report-from-summary", {params_to_draw},
                          {NoAnalysisCfg}) :
        /\ r.summary.present
        /\ r.summary.averages = Averages(Len(numeric_cols))
        /\ r.summary.type_distribution = <<Num(2), Num(2)>>
        /\ r.summary.per_type_averages = [k \in {} |-> <<>>]
        /\ r.include = [summary |-> TRUE, type_chart |-> TRUE,
                        analysis |-> FALSE, preview_rows |-> TRUE]
        /\ r.preview_rows.rows = 3 /\ r.preview_rows.cols = 0
        /\ r.chart_type = "bar"
        /\ r.analysis_chart_types = [k \in {} |-> "bar"]
        /\ r.fault \in {"none", "save"}}

Pks == 1..(MaxUploads + 1)

\* Reports are asked of the first datasets: the first upload holds the file
\* drawn at the start, every later one the sample rows.
ReportPks == 1..3

InitRead ==
    /\ EmptyStore
    /\ req = [r \in Req |-> IdleReq]
    /\ selected \in ReadCsvs
    /\ chart = NoChart
    /\ doc = NoDoc
    /\ client = NoClient

\* Uploads run one at a time; the reads come between their steps.  The
\* first upload posts the file in hand, the later ones the sample rows.
ReadUpload(u) ==
    /\ req[1].pc = "idle"
    /\ StoreUpload(1, u, IF nextId = 1 THEN selected
                         ELSE Csv(PlainHeader, SampleRows))

\* An upload the view refuses: a column is missing.
ReadRejectedUpload(u) ==
    /\ req[1].pc = "idle"
    /\ StoreUpload(1, u, Csv(ShortHeader, <<>>))

HistoryGet(u) ==
    /\ response' = history_get(u)
    /\ UNCHANGED <<datasets, files, nextId, clock, req, uploaded, selected, client,
                   chart, doc>>

DatasetSummaryGet(u, pk) ==
    /\ response' = summary_get(u, pk)
    /\ UNCHANGED <<datasets, files, nextId, clock, req, uploaded, selected, client,
                   chart, doc>>

StoredReportGet(u, pk, fault) ==
    /\ response' = report_get(u, pk, "bar", fault)
    /\ UNCHANGED <<datasets, files, nextId, clock, req, uploaded, selected, client,
                   chart, doc>>

AdhocReportPost(request) ==
    /\ response' = report_response("ReportFromSummaryView.post", request,
                                   adhoc_compose(request))
    /\ UNCHANGED <<datasets, files, nextId, clock, req, uploaded, selected, client,
                   chart, doc>>

NextRead ==
    \/ \E u \in Users : ReadUpload(u)
    \/ \E u \in Users : ReadRejectedUpload(u)
    \/ StorePruneQuery(1)
    \/ StorePruneDelete(1)
    \/ \E u \in Users : HistoryGet(u)
    \/ \E u \in Users, pk \in Pks : DatasetSummaryGet(u, pk)
    \/ \E u \in Users, pk \in ReportPks, fault \in {"none", "save"} :
          StoredReportGet(u, pk, fault)
    \/ \E request \in ReadReportRequests : AdhocReportPost(request)

SpecRead == InitRead /\ [][NextRead]_vars

(***************************************************************************)
(* What the statements below say about an upload, read off the file the    *)
(* client posted and not off the server's data frame.                      *)
(***************************************************************************)
\* A column name without its surrounding whitespace.
Trimmed(name) ==
    LET inked == {i \in DOMAIN name : name[i] # WS}
    IN  IF inked = {} THEN <<>>
        ELSE SubSeq(name, CHOOSE i \in inked : \A k \in inked : i <= k,
                          CHOOSE i \in inked : \A k \in inked : i >= k)

TrimmedHeader(csv) == [j \in DOMAIN csv.header |-> Trimmed(csv.header[j])]

HasRequiredColumns(csv) ==
    \A name \in {EquipmentName, TypeCol, FlowrateCol, PressureCol,
                 TemperatureCol} :
        \E j \in DOMAIN csv.header : Trimmed(csv.header[j]) = name

\* The posted file is read into a table with one column per required name.
WellFormed(csv) ==
    /\ csv.file
    /\ csv.parses
    /\ HasRequiredColumns(csv)
    /\ \A i, j \in DOMAIN csv.header :
          Trimmed(csv.header[i]) = Trimmed(csv.header[j]) => i = j

\* The raw cell of row i under the column called name.
RawCell(csv, i, name) ==
    csv.rows[i][CHOOSE j \in DOMAIN csv.header : Trimmed(csv.header[j]) = name]

RowIds(csv) == DOMAIN csv.rows

\* Rows whose cell under name is a number, and the sum of these numbers.
PresentRows(csv, name, among) ==
    {i \in among : RawCell(csv, i, name) \in NumLiterals}

RECURSIVE RawSum(_, _, _)
RawSum(csv, name, S) ==
    IF S = {} THEN 0
    ELSE LET i == CHOOSE k \in S : TRUE
         IN  NumOf(RawCell(csv, i, name)) + RawSum(csv, name, S \ {i})

\* avg is the mean of the numbers of column name over the rows among, or
\* null when there is none.
IsMeanOf(avg, csv, name, among) ==
    LET present == PresentRows(csv, name, among)
    IN  IF present = {} THEN avg = <<>>
        ELSE /\ Len(avg) = 2
             /\ avg[2] > 0
             /\ avg[1] * Cardinality(present) = RawSum(csv, name, present) * avg[2]

Accepted == response.status = 201

MissingTypeRows(csv) == {i \in RowIds(csv) : RawCell(csv, i, TypeCol) = ""}

\* C1: for every accepted upload the counts of type_distribution add up to
\* total_count, also when rows have a missing Type cell.
C1_DistributionSumsToTotal ==
    Accepted =>
        SetSum(response.summary.type_distribution,
               DOMAIN response.summary.type_distribution)
            = response.summary.total_count

TypeKeyOf(csv, i) ==
    LET cell == RawCell(csv, i, TypeCol)
        others == {RawCell(csv, k, TypeCol) : k \in RowIds(csv)} \ {""}
    IN  IF others \subseteq BoolLiterals
        THEN (IF cell = "True" THEN "true" ELSE "false")
        ELSE cell

\* C3: for every accepted upload and numeric column, per_type_averages has
\* exactly the Type keys of type_distribution, and the entry of each Type is
\* the mean of the column's numbers over the rows of that Type, or null.
C3_PerTypeAveragesMatchDistribution ==
    (WellFormed(selected) /\ Accepted) =>
        \A c \in {FlowrateCol, PressureCol, TemperatureCol} :
            LET per == response.summary.per_type_averages[c]
                dist == response.summary.type_distribution
            IN  /\ DOMAIN per = DOMAIN dist
                /\ \A k \in DOMAIN dist :
                      IsMeanOf(per[k], selected, c,
                               {i \in RowIds(selected) \ MissingTypeRows(selected) :
                                   TypeKeyOf(selected, i) = k})

\* C4: when rows have a missing Type cell, type_distribution has a key of
\* its own for them whose count is the number of these rows.
C4_MissingTypeHasOwnKey ==
    (WellFormed(selected) /\ Accepted /\ MissingTypeRows(selected) # {}) =>
        \E k \in DOMAIN response.summary.type_distribution :
            /\ k \notin {TypeKeyOf(selected, i) :
                            i \in RowIds(selected) \ MissingTypeRows(selected)}
            /\ response.summary.type_distribution[k]
                  = Cardinality(MissingTypeRows(selected))

IsSchemaError(resp) ==
    resp.status = 400 /\ resp.detail = "CSV missing required columns"

\* C5: an upload is refused with the schema error exactly when the posted
\* file parses and the trimmed column names do not hold the five required
\* names; the error lists the required names and the columns found.
C5_SchemaErrorIffColumnsMissing ==
    response # NoResponse =>
        /\ IsSchemaError(response)
              <=> (selected.file /\ selected.parses
                      /\ ~HasRequiredColumns(selected))
        /\ IsSchemaError(response) =>
              /\ Range(response.required)
                    = {EquipmentName, TypeCol, FlowrateCol, PressureCol,
                       TemperatureCol}
              /\ response.found = TrimmedHeader(selected)

\* C5 witness: a header that differs from the required names by case only
\* is refused, and the error shows the column "type".
C5_Witness ==
    /\ IsSchemaError(response)
    /\ <<"type">> \in Range(response.found)
    /\ TypeCol \notin Range(response.found)

\* C6: a step that returns a 400 (no file, unreadable CSV, columns missing)
\* leaves the stored datasets and the stored files as they were.
C6_RejectedUploadLeavesStore ==
    [][(response' # response /\ response'.status = 400)
          => (datasets' = datasets /\ files' = files)]_vars

\* C6 witness: the last request was refused while five datasets are stored
\* and no other request is in flight.
C6_Witness ==
    /\ response.status = 400
    /\ \A r \in Req : req[r].pc = "idle"
    /\ Cardinality(datasets) = KEEP
    /\ Cardinality(files) = KEEP

Quiescent == \A r \in Req : req[r].pc = "idle"

UploadsOf(u) == {d \in uploaded : d.user = u}

\* The ids of the five most recent uploads of u.
NewestFive(u) ==
    {d.id : d \in {e \in UploadsOf(u) :
                      Cardinality({f \in UploadsOf(u) :
                                      f.uploaded_at > e.uploaded_at}) < 5}}

Rendered == chart.pc = "returned"

\* C8: whatever the series and the chart type, a chart renderer hands its
\* caller an image of at least one byte, a placeholder when the plotting
\* failed, and never an absent result.
C8_RendererAlwaysReturnsImage ==
    Rendered => (~chart.result.is_none /\ chart.result.nbytes > 0)


(***************************************************************************)
(* Report composers.                                                       *)
(***************************************************************************)
\* A report was composed and handed to the caller.
Composed == doc.pc = "done" /\ doc.pdf

Toggled == doc.fn \in {"ReportFromSummaryView.post", "generate_nice_pdf"}

SectionsOf(items) == {items[i].section : i \in DOMAIN items}

SectionRank(section) ==
    CASE section = "title" -> 1
      [] section = "summary" -> 2
      [] section = "type_chart" -> 3
      [] section = "analysis" -> 4
      [] section = "preview" -> 5
      [] section = "footer" -> 6

InSectionOrder(items) ==
    \A i, j \in DOMAIN items :
        i < j => SectionRank(items[i].section) <= SectionRank(items[j].section)

ToggleOf(include, section) ==
    CASE section = "summary" -> include.summary
      [] section = "type_chart" -> include.type_chart
      [] section = "analysis" -> include.analysis
      [] section = "preview" -> include.preview_rows
      [] OTHER -> FALSE

OnlyPreviewAsked ==
    /\ ~doc.request.include.summary
    /\ ~doc.request.include.type_chart
    /\ ~doc.request.include.analysis
    /\ doc.request.include.preview_rows
    /\ doc.request.preview_rows.rows = 3

\* C9 as stated: a composed report opens with the title block, its sections
\* follow the order title, summary, type chart, analysis, preview, whatever
\* follows the title block belongs to a section whose toggle is on, and a
\* request for the preview alone, with 3 rows, gives a document of the title
\* block and the preview table and nothing else.
C9_SectionsFollowToggles ==
    (Composed /\ Toggled) =>
        /\ doc.items # <<>>
        /\ doc.items[1].section = "title"
        /\ InSectionOrder(doc.items)
        /\ \A section \in SectionsOf(doc.items) \ {"title"} :
                ToggleOf(doc.request.include, section)
        /\ OnlyPreviewAsked => SectionsOf(doc.items) = {"title", "preview"}

\* C9 amended: as above, except that the desktop document always ends with
\* its closing attribution line, which no toggle governs; the request for
\* the preview alone gives the title block and the preview table, followed
\* in the desktop document by that line.
C9_SectionsFollowTogglesBeforeClosingLine ==
    (Composed /\ Toggled) =>
        /\ doc.items # <<>>
        /\ doc.items[1].section = "title"
        /\ InSectionOrder(doc.items)
        /\ \A section \in SectionsOf(doc.items) \ {"title", "footer"} :
                ToggleOf(doc.request.include, section)
        /\ \A i \in DOMAIN doc.items :
                doc.items[i].section = "footer"
                    <=> (doc.fn = "generate_nice_pdf" /\ i = Len(doc.items))
        /\ OnlyPreviewAsked =>
                SectionsOf(doc.items) \ {"footer"} = {"title", "preview"}

C9_Witness ==
    /\ Composed
    /\ doc.fn = "generate_nice_pdf"
    /\ OnlyPreviewAsked
    /\ SectionsOf(doc.items) = {"title", "preview", "footer"}

ServerComposed ==
    Composed /\ doc.fn \in {"ReportFromSummaryView.post", "ReportView.get"}

\* C10: in a report composed on the server every drawn item (text line,
\* section header, chart image, table row) lies on a page of the document
\* with its lowest y coordinate at or above the bottom of the page.
C10_EveryItemLiesOnItsPage ==
    ServerComposed =>
        \A i \in DOMAIN doc.items :
            /\ doc.items[i].bottom >= 0
            /\ doc.items[i].page \in 1..doc.pages


\* The analysis parameters of the posted summary that have per-type data.
ParamsWithData ==
    {param \in Range(params_to_draw) :
        get(doc.request.summary.per_type_averages, param) # <<>>}

AdhocComposed == Composed /\ doc.fn = "ReportFromSummaryView.post"

\* The items of kind `kind` drawn for the analysis of param.
AnalysisItems(param, kind) ==
    {i \in DOMAIN doc.items :
        /\ doc.items[i].section = "analysis"
        /\ doc.items[i].kind = kind
        /\ doc.items[i].param = param}

\* C11: in a report of ReportFromSummaryView.post with the analysis on, each
\* parameter with data has one section header and, in the place of its chart,
\* one item (the image, or the error line); the image stands on the page of
\* its header, wholly above the bottom of that page, and that page is a page
\* of the document: a chart that did not fit was moved to a new page.
C11_AnalysisChartOnceAndOnItsPage ==
    (AdhocComposed /\ doc.request.include.analysis) =>
        \A param \in ParamsWithData :
            /\ Cardinality(AnalysisItems(param, "header")) = 1
            /\ Cardinality(AnalysisItems(param, "image")
                             \cup AnalysisItems(param, "text")) = 1
            /\ \A i \in AnalysisItems(param, "image") :
                    /\ doc.items[i].bottom >= 0
                    /\ doc.items[i].page \in 1..doc.pages
                    /\ doc.items[i - 1].kind = "header"
                    /\ doc.items[i - 1].param = param
                    /\ doc.items[i - 1].page = doc.items[i].page

\* A chart that did not fit under the type-distribution chart stands on the
\* second page.
C11_Witness ==
    /\ AdhocComposed
    /\ doc.request.include.analysis
    /\ doc.pages > 1
    /\ \E param \in ParamsWithData :
          \E i \in AnalysisItems(param, "image") :
              /\ doc.items[i].page = 2
              /\ doc.items[i - 2].page = 1

\* The composition itself fails: the document cannot be written, or the
\* preview rows asked for are not objects.
FailsToCompose(request) ==
    \/ request.fault = "save"
    \/ /\ request.to # "report"
       /\ request.include.preview_rows
       /\ request.preview_rows.rows > 0
       /\ ~request.preview_rows.dicts

CompositionFails == FailsToCompose(doc.request)

\* The chart of the type distribution cannot be rendered or embedded.
TypeChartFails ==
    IF doc.request.to = "desktop"
    THEN nice_embed_raises(
            create_plot_image(doc.request.summary.type_distribution,
                              doc.request.chart_type,
                              doc.request.fault = "plot"),
            doc.request)
    ELSE \/ doc.request.fault = "embed"
         \/ create_chart_image(doc.request.summary, doc.request.chart_type,
                               doc.request.fault = "plot").is_none

\* The analysis chart of param cannot be rendered or embedded.
AnalysisChartFails(param) ==
    LET data_dict == get(doc.request.summary.per_type_averages, param)
        chart_type == get_chart_type(doc.request.analysis_chart_types, param)
    IN  IF doc.request.to = "desktop"
        THEN nice_embed_raises(
                create_plot_image(data_dict, chart_type,
                                  doc.request.fault = "plot"),
                doc.request)
        ELSE \/ doc.request.fault = "embed"
             \/ adhoc_analysis_plot(data_dict, chart_type).is_none

\* The type chart, resp. the analysis sections, are part of the document.
TypeChartAsked ==
    /\ doc.request.include.type_chart
    /\ doc.request.to = "desktop" =>
            (doc.request.summary.present
                /\ doc.request.summary.type_distribution # <<>>)

AnalysisAsked ==
    /\ doc.request.include.analysis
    /\ doc.request.to = "desktop" => doc.request.summary.present

AnalysisParams ==
    {param \in Range(IF doc.request.to = "desktop"
                     THEN doc.request.analysis_params_order
                     ELSE params_to_draw) :
        get(doc.request.summary.per_type_averages, param) # <<>>}

ItemsOf(section, kind) ==
    {i \in DOMAIN doc.items :
        doc.items[i].section = section /\ doc.items[i].kind = kind}

\* The item after item i, if any, is further down the page or on a later
\* page (server documents only: the desktop flow has no cursor).
CursorAdvancedAfter(i) ==
    (doc.fn = "ReportFromSummaryView.post" /\ i < Len(doc.items)) =>
        \/ doc.items[i + 1].page > doc.items[i].page
        \/ doc.items[i + 1].bottom < doc.items[i].bottom

\* C12: when a chart cannot be rendered or embedded and nothing else fails,
\* the report is still returned; it holds one line of text in the place of
\* each failed chart and no image of it, the cursor has moved on past that
\* line, and every later section is there: the section of every analysis
\* parameter with data and the preview table.
C12_FailedChartLeavesErrorLine ==
    (doc.pc = "done" /\ Toggled /\ ~CompositionFails) =>
        /\ doc.pdf
        /\ (TypeChartAsked /\ TypeChartFails) =>
                /\ Cardinality(ItemsOf("type_chart", "text")) = 1
                /\ ItemsOf("type_chart", "image") = {}
                /\ \A i \in ItemsOf("type_chart", "text") :
                        CursorAdvancedAfter(i)
        /\ AnalysisAsked =>
                \A param \in AnalysisParams :
                    /\ Cardinality(AnalysisItems(param, "header")) = 1
                    /\ AnalysisChartFails(param) =>
                            /\ Cardinality(AnalysisItems(param, "text")) = 1
                            /\ AnalysisItems(param, "image") = {}
                            /\ \A i \in AnalysisItems(param, "text") :
                                    CursorAdvancedAfter(i)
        /\ (doc.request.include.preview_rows
                /\ doc.request.preview_rows.rows > 0) =>
                "preview" \in SectionsOf(doc.items)

\* Every chart of a full report failed to embed, and the preview is there.
C12_Witness ==
    /\ AdhocComposed
    /\ doc.request.fault = "embed"
    /\ doc.request.include.type_chart
    /\ doc.request.include.analysis
    /\ Cardinality(AnalysisParams) = 3
    /\ Cardinality(ItemsOf("analysis", "text")) = 3
    /\ Cardinality(ItemsOf("type_chart", "text")) = 1
    /\ "preview" \in SectionsOf(doc.items)


(***************************************************************************)
(* The read endpoints.                                                     *)
(***************************************************************************)
\* The response resp was written by the view fn.
FromView(resp, fn) == "fn" \in DOMAIN resp /\ resp.fn = fn

\* resp ends a report request that found its dataset (or needs none).
ReportAnswer(resp) ==
    /\ FromView(resp, "ReportView.get")
          \/ FromView(resp, "ReportFromSummaryView.post")
    /\ resp.status # 404

\* C13: when the composition of a report fails in ReportView.get or in
\* ReportFromSummaryView.post (the document cannot be written, or the
\* preview rows are not objects), the answer is a 500 with the fixed message
\* and without any of the document, and the request leaves the stored
\* datasets and files as they were.
C13_FailedCompositionReturnsNoDocument ==
    [][(response' # response /\ ReportAnswer(response')
            /\ FailsToCompose(response'.request))
          => /\ response'.status = 500
             /\ ~response'.pdf
             /\ response'.items = <<>>
             /\ response'.pages = 0
             /\ response'.detail = "Failed to generate PDF"
             /\ datasets' = datasets
             /\ files' = files]_vars

\* C13 witness: the report of a stored dataset has failed while its owner
\* has the five datasets and another user one more.
C13_Witness ==
    /\ ReportAnswer(response)
    /\ FailsToCompose(response.request)
    /\ response.fn = "ReportView.get"
    /\ Cardinality(datasets) > KEEP

\* What the upload that created dataset pk computed.
UploadOf(pk) == CHOOSE d \in uploaded : d.id = pk

\* C15: the summary of a stored dataset is the one its upload computed, in
\* the table and in every answer that carries it: the upload's own 201, the
\* entries of the history, the summary endpoint and the report.
C15_StoredSummaryNeverChanges ==
    /\ \A d \in datasets : d.summary = UploadOf(d.id).summary
    /\ ("id" \in DOMAIN response /\ response.status = 201)
          => response.summary = UploadOf(response.id).summary
    /\ FromView(response, "HistoryView.get")
          => \A i \in DOMAIN response.data :
                response.data[i].summary
                    = UploadOf(response.data[i].id).summary
    /\ (FromView(response, "DatasetSummaryView.get") /\ response.status = 200)
          => response.summary = UploadOf(response.pk).summary
    /\ (FromView(response, "ReportView.get") /\ response.status # 404)
          => response.request.summary
                = stored_summary_of(UploadOf(response.request.pk).summary)

\* C15 witness: the summary of the first dataset, a file of nine rows, is
\* returned after five later uploads were stored, and it differs from the
\* summaries of the later datasets.
C15_Witness ==
    /\ FromView(response, "DatasetSummaryView.get")
    /\ response.status = 200
    /\ response.pk = 1
    /\ response.summary.total_count = Len(LongRows)
    /\ Cardinality(uploaded) > KEEP
    /\ \E d \in datasets : d.summary # response.summary

\* resp answers a request for one dataset: its summary or its report.
DatasetAnswer(resp) ==
    FromView(resp, "DatasetSummaryView.get") \/ FromView(resp, "ReportView.get")

AskedBy(resp) == IF "user" \in DOMAIN resp THEN resp.user ELSE resp.request.user
AskedPk(resp) == IF "pk" \in DOMAIN resp THEN resp.pk ELSE resp.request.pk

\* C16: a request for the summary or the report of dataset pk is answered
\* with the dataset only when a stored dataset has this id and the
\* requesting user owns it; otherwise the answer is a 404 that holds the
\* fixed message and nothing else, the same for an id that does not exist
\* and for another user's dataset.
C16_OnlyOwnerReadsDataset ==
    [][(response' # response /\ DatasetAnswer(response'))
          => LET u == AskedBy(response')
                 pk == AskedPk(response')
                 owned == \E d \in datasets : d.id = pk /\ d.user = u
             IN  /\ response'.status = 404 <=> ~owned
                 /\ response'.status = 404
                       => response' = [fn |-> response'.fn, user |-> u,
                                       pk |-> pk, status |-> 404,
                                       detail |-> "Not found."]]_vars

\* C16 witness: a user asked for a stored dataset of another user and got
\* the 404.
C16_Witness ==
    /\ DatasetAnswer(response)
    /\ response.status = 404
    /\ \E d \in datasets : d.id = response.pk /\ d.user # response.user

\* C17: the history a user asks for holds at most five entries, each a
\* stored dataset of this user, the newest first, and every stored dataset
\* of the user that is left out is older than every entry; with fewer than
\* five datasets all of them are listed.
C17_HistoryIsNewestFiveOfUser ==
    [][(response' # response /\ FromView(response', "HistoryView.get"))
          => LET data == response'.data
                 mine == {d \in datasets : d.user = response'.user}
                 listed == {data[i].id : i \in DOMAIN data}
             IN  /\ Len(data) <= 5
                 /\ Len(data) = IF Cardinality(mine) < 5
                                 THEN Cardinality(mine) ELSE 5
                 /\ \A i \in DOMAIN data :
                       \E d \in mine : /\ d.id = data[i].id
                                       /\ d.uploaded_at = data[i].uploaded_at
                 /\ \A i, j \in DOMAIN data :
                       i < j => data[i].uploaded_at > data[j].uploaded_at
                 /\ \A d \in mine :
                       d.id \notin listed
                          => \A i \in DOMAIN data :
                                data[i].uploaded_at > d.uploaded_at]_vars

\* C17 witness: the history of a user lists five datasets while six of this
\* user's are stored, an upload being between its insert and its pruning;
\* the oldest of the six is the one left out.
C17_Witness ==
    /\ FromView(response, "HistoryView.get")
    /\ Len(response.data) = 5
    /\ Cardinality({d \in datasets : d.user = response.user}) = 6
    /\ \E d \in datasets :
          /\ d.user = response.user
          /\ d.uploaded_at < response.data[5].uploaded_at

\* The answer carries the preview of dataset pk.
CarriesPreview(resp) ==
    \/ "id" \in DOMAIN resp /\ resp.status = 201
    \/ FromView(resp, "DatasetSummaryView.get") /\ resp.status = 200

PreviewPk(resp) == IF "id" \in DOMAIN resp THEN resp.id ELSE resp.pk

\* preview shows the first rows of the posted file csv: row i of the preview
\* is row i of the file, its keys are the column names in the order of the
\* header, and each value is the text of the cell (an empty cell is NaN).
ShowsFirstRowsOf(preview, csv) ==
    /\ Len(preview) = IF Len(csv.rows) < 8 THEN Len(csv.rows) ELSE 8
    /\ \A i \in DOMAIN preview :
          /\ DOMAIN preview[i] = DOMAIN csv.header
          /\ \A j \in DOMAIN csv.header :
                /\ preview[i][j].key = Trimmed(csv.header[j])
                /\ preview[i][j].value.v = csv.rows[i][j]

\* C18: the preview rows in the upload's 201 and in the answer of
\* DatasetSummaryView.get are at most 8, are the first rows of the posted
\* file in its row and column order with the cell values of the file, and
\* are the same in both answers for one dataset.
C18_PreviewShowsOriginalFirstRows ==
    CarriesPreview(response)
        => LET upload == UploadOf(PreviewPk(response))
           IN  /\ Len(response.preview_rows) <= 8
               /\ ShowsFirstRowsOf(response.preview_rows, upload.csv)
               /\ response.preview_rows = upload.preview_rows

(***************************************************************************)
(* Pie charts and pyplot figures.                                          *)
(***************************************************************************)
\* A chart was plotted, by one of the two renderers or in line.
Plotted == chart.pc \in {"returned", "plotted"}

\* The values of the series are all present and sum to zero.
ZeroSum(series) == ~HasNone(series) /\ sum(series) = 0

\* C19: a pie chart of a series whose values sum to zero shows the 'No data'
\* placeholder, and not a pie or any other plot of the values, in
\* create_chart_image, in the analysis charts of ReportFromSummaryView.post
\* and in create_plot_image.
C19_ZeroSumPieShowsNoData ==
    (Plotted /\ chart.chart_type = "pie" /\ ZeroSum(chart.series))
        => (~chart.result.is_none /\ chart.result.shows = "No data")

\* The renders of the run: the calls begun in the threads.
Calls == {chart.calls[t] : t \in {u \in Threads : chart.calls[u].pc # "idle"}}

\* C14: under every interleaving of the pyplot calls of two renders, a
\* figure holds only the series of the call that opened it, the image a call
\* saves shows only its own series, and a call closes only the figure it
\* opened.
C14_ConcurrentRendersAreIndependent ==
    /\ \A i \in DOMAIN chart.figs : chart.figs[i].drawn \subseteq
                                        {chart.figs[i].by}
    /\ \A call \in Calls :
          /\ call.image \subseteq {call.id}
          /\ call.pc \in {"saved", "done"} /\ ~call_raises(call)
                => call.image = {call.id}
          /\ call.closed \subseteq {call.id}

\* C20: when a render has ended, the figure it opened is closed: with no
\* render in progress no figure is open, whether the renders succeeded or
\* failed; and a render that has opened its figure finds it blank and
\* current.
C20_NoFigureOutlivesItsRender ==
    /\ (\A t \in Threads : chart.calls[t].pc \in {"idle", "done"})
          => chart.figs = <<>>
    /\ \A t \in Threads :
          chart.calls[t].pc = "opened"
             => /\ chart.figs # <<>>
                /\ chart.figs[Len(chart.figs)]
                      = [by |-> chart.calls[t].id, drawn |-> {}]

(***************************************************************************)
(* Fallbacks, the preview table and bar orientation.                       *)
(***************************************************************************)
\* C21: in a returned report with the type chart on and an empty
\* type_distribution, the place of the type chart holds a line of text and
\* no image, whatever the chart type, in ReportFromSummaryView.post and in
\* generate_nice_pdf.
C21_EmptyDistributionShowsFallbackText ==
    (Composed /\ Toggled /\ doc.request.include.type_chart
        /\ doc.request.summary.type_distribution = <<>>)
      => /\ ItemsOf("type_chart", "text") # {}
         /\ ItemsOf("type_chart", "image") = {}

\* The parameters a report with analysis is asked to chart.
ParamsAsked ==
    Range(IF doc.request.to = "desktop" THEN doc.request.analysis_params_order
          ELSE params_to_draw)

\* A line of text in the analysis section about param, or about the
\* analysis as a whole.
NoticesFor(param) ==
    {i \in ItemsOf("analysis", "text") :
        doc.items[i].param = param \/ doc.items[i].param = <<>>}

\* C22: in a returned report with the analysis on, every parameter asked for
\* that has no per-type data (absent from per_type_averages or mapped to an
\* empty map) has a line of text in the analysis section, and no chart.
C22_ColumnWithoutDataGetsNotice ==
    (Composed /\ Toggled /\ AnalysisAsked)
      => \A param \in ParamsAsked :
            get(doc.request.summary.per_type_averages, param) = <<>>
               => /\ NoticesFor(param) # {}
                  /\ AnalysisItems(param, "image") = {}

PreviewRowItems(what) ==
    {i \in ItemsOf("preview", "row") : doc.items[i].what = what}

\* The content area of the page a composer draws on: between the margins of
\* 72 on the server's canvas, of 48 in the desktop's document.
ContentLeft == IF doc.fn = "generate_nice_pdf" THEN 48 ELSE 72
ContentRight == PageWidth - ContentLeft

RowLimit == IF doc.fn = "ReportFromSummaryView.post" THEN 10 ELSE 8

EvenlyDivided(cells) ==
    \A k \in DOMAIN cells :
        /\ cells[k].left >= ContentLeft * cells[k].per
        /\ cells[k].right <= ContentRight * cells[k].per
        /\ (cells[k].right - cells[k].left) * Len(cells)
                = (ContentRight - ContentLeft) * cells[k].per

\* C23: the preview table of a composed report has at most 8 data rows (10 in
\* a report from a posted summary) and at most 6 columns, the first 6 when the
\* rows have more; the cells of a row divide the width of the content area
\* evenly and none reaches beyond its right edge.
C23_PreviewTableFitsContentArea ==
    Composed =>
        /\ Cardinality(PreviewRowItems("row")) <= RowLimit
        /\ \A i \in ItemsOf("preview", "row") :
              /\ Len(doc.items[i].cells) =
                    IF doc.request.preview_rows.cols > 6 THEN 6
                    ELSE doc.request.preview_rows.cols
              /\ EvenlyDivided(doc.items[i].cells)

\* A bar chart was rendered of a series all of whose values are present.
BarsRendered ==
    /\ chart.pc \in {"returned", "drawn"}
    /\ chart.chart_type = "bar"
    /\ chart.series # <<>>
    /\ ~HasNone(chart.series)

\* C24: create_chart_image, create_plot_image and the desktop overview chart
\* draw a bar chart with vertical bars when the number of categories is below
\* the threshold and with horizontal bars when it is at or above it, the
\* threshold being the same in the three of them.
C24_BarOrientationFollowsOneThreshold ==
    BarsRendered =>
        chart.result.shows =
            IF Len(chart.series) >= HBarAt THEN "hbars" ELSE "bars"

(***************************************************************************)
(* Uploads on a store that already holds five datasets of one user, with   *)
(* the storage and the database failing at any of the deletions.           *)
(***************************************************************************)
MaxPruneUploads == 3    \* uploads after the five the store begins with

PruneCsv == Csv(PlainHeader, SampleRows)

\* The store after alice has uploaded PruneCsv five times, one request after
\* the other: the first file has the client's name, the later ones a suffix.
StoredName(id) == [base |-> Filename, suffix |-> IF id = 1 THEN 0 ELSE id]

StoredDataset(id) ==
    [id |-> id, user |-> "alice", uploaded_at |-> id,
     csv_file |-> [name |-> StoredName(id)],
     summary |-> summarize(read_csv(PruneCsv))]

StoredUpload(id) ==
    [id |-> id, user |-> "alice", uploaded_at |-> id, csv |-> PruneCsv,
     summary |-> summarize(read_csv(PruneCsv)),
     preview_rows |->
        to_dict_records(head(coerce(read_csv(PruneCsv)), PreviewRows))]

InitPrune ==
    /\ datasets = {StoredDataset(id) : id \in 1..KEEP}
    /\ files = {[name |-> StoredName(id), content |-> PruneCsv] :
                    id \in 1..KEEP}
    /\ nextId = KEEP + 1
    /\ clock = KEEP + 1
    /\ uploaded = {StoredUpload(id) : id \in 1..KEEP}
    /\ response = [status |-> 201, id |-> KEEP,
                   summary |-> StoredUpload(KEEP).summary,
                   preview_rows |-> StoredUpload(KEEP).preview_rows]
    /\ req = [r \in Req |-> IdleReq]
    /\ selected = NoFileCsv
    /\ chart = NoChart
    /\ doc = NoDoc
    /\ client = NoClient

PruneUpload(r, u) ==
    /\ Free(r)
    /\ \A q \in Req : q < r => ~Free(q)
    /\ nextId <= KEEP + MaxPruneUploads
    /\ post_begin(r, u, PruneCsv)
    /\ UNCHANGED <<selected, client, chart, doc>>

PruneQuery(r, storage_fails) ==
    /\ post_prune_query(r, storage_fails)
    /\ UNCHANGED <<selected, client, chart, doc>>

PruneDelete(r, db_fails, storage_fails) ==
    /\ post_prune_delete(r, db_fails, storage_fails)
    /\ UNCHANGED <<selected, client, chart, doc>>

NextPrune ==
    \/ \E r \in Req, u \in Users : PruneUpload(r, u)
    \/ \E r \in Req, storage_fails \in BOOLEAN : PruneQuery(r, storage_fails)
    \/ \E r \in Req, db_fails \in BOOLEAN, storage_fails \in BOOLEAN :
          PruneDelete(r, db_fails, storage_fails)

SpecPrune == InitPrune /\ [][NextPrune]_vars

\* The same uploads with a storage and a database that never fail.
NextRace ==
    \/ \E r \in Req, u \in Users : PruneUpload(r, u)
    \/ \E r \in Req : PruneQuery(r, FALSE)
    \/ \E r \in Req : PruneDelete(r, FALSE, FALSE)

SpecRace == InitPrune /\ [][NextRace]_vars

(***************************************************************************)
(* Ownership and consistency of the store.                                 *)
(***************************************************************************)
\* The user whose request takes the step, when a request takes one.
Acts(r) == req'[r] # req[r]
Actor(r) == IF req[r].pc = "idle" THEN req'[r].user ELSE req[r].user

Untouched(d) ==
    /\ d \in datasets'
    /\ \A f \in files : f.name = d.csv_file.name => f \in files'

\* C25: no step of an upload of one user removes or changes a stored dataset
\* of another user, or the file of one, however the uploads of the users
\* interleave.
C25_UploadLeavesOtherUsersData ==
    [][\A r \in Req :
         Acts(r) => \A d \in datasets : d.user # Actor(r) => Untouched(d)]_vars

\* The datasets whose csv_file is the file f.
ReferringTo(f) == {d \in datasets : d.csv_file.name = f.name}

\* C26: once every upload has completed, whichever deletions of files or of
\* records failed on the way, every stored dataset refers to a file that is
\* in the storage and every file in the storage is the file of exactly one
\* dataset: a pruned dataset has lost its record and its file together.
C26_RecordsAndFilesCorrespond ==
    Quiescent =>
        /\ \A d \in datasets : exists(d.csv_file.name)
        /\ \A f \in files : Cardinality(ReferringTo(f)) = 1

(***************************************************************************)
(* How long an uploaded dataset can be read.                               *)
(***************************************************************************)
\* The upload has returned its 201: its dataset was created and no request
\* is still at work on it.
Returned(up) == \A r \in DOMAIN req : req[r].obj # up.id

\* The uploads of the same user that were stored after `up` and have
\* returned.
LaterReturned(up) ==
    {v \in uploaded : /\ v.user = up.user
                      /\ v.uploaded_at > up.uploaded_at
                      /\ Returned(v)}

\* GET /api/summary/<id>/ and GET /api/report/<id>/ of the owner both answer
\* 200.
Retrievable(up) ==
    /\ summary_get(up.user, up.id).status = 200
    /\ report_get(up.user, up.id, "bar", "none").status = 200

\* The dataset a request created is among the rows it is about to delete.
PrunesOwn(r) ==
    /\ req[r].pc = "listed"
    /\ req[r].obj \in {d.id : d \in req[r].to_delete}

\* C27: a dataset whose upload returned 201 can be read by its owner through
\* summary/<id> and report/<id> as long as fewer than five later uploads of
\* the same user have returned, and no upload lists for deletion the dataset
\* it has just created, however the uploads of the user interleave.
C27_UploadStaysUntilFiveLaterOnes ==
    /\ \A up \in uploaded :
          (Returned(up) /\ Cardinality(LaterReturned(up)) < KEEP)
             => Retrievable(up)
    /\ \A r \in DOMAIN req : ~PrunesOwn(r)

(***************************************************************************)
(* The desktop client: class MainWindow of pyqt_app.py.  Its tokens and    *)
(* the buttons that need them, the dataset it shows, and the analysis      *)
(* cards with the order list that the local PDF follows.                   *)
(***************************************************************************)
MaxTokens == 2      \* token pairs the server issues in one run

\* The literal list of lines 716 and 1116.
analysis_params_default == <<FlowrateCol, PressureCol, TemperatureCol>>

NoPreview == [rows |-> 0, cols |-> 0, dicts |-> TRUE]

\* MainWindow.__init__: no tokens, no dataset, the three buttons disabled,
\* no cards yet and the order list of three names.  The load_history() that
\* ends it is unauthorized and changes nothing.
MainWindow ==
    [pc |-> "open",
     access_token |-> None, refresh_token |-> None,
     logged_in_username |-> None,
     btn_logout |-> FALSE, btn_upload |-> FALSE, btn_refresh |-> FALSE,
     current_summary |-> EmptySummary, current_preview |-> NoPreview,
     current_dataset_id |-> None,
     param_cards |-> <<>>,
     analysis_params_order |-> analysis_params_default]

\* param_cards is a dict in insertion order: its keys.
card_keys(param_cards) == [i \in DOMAIN param_cards |-> param_cards[i].param]

\* build_analysis_cards: a fresh dict with one card for each name of the
\* order list, holding that parameter's per-type averages (or none).
build_analysis_cards(c) ==
    LET per_type == c.current_summary.per_type_averages
        order == c.analysis_params_order
    IN  [c EXCEPT !.param_cards =
            [i \in DOMAIN order |->
                [param |-> order[i], values |-> get(per_type, order[i])]]]

\* update_ui_from_summary: the panels are refilled from current_summary and
\* the cards are built again last.
update_ui_from_summary(c) == build_analysis_cards(c)

\* rebuild_analysis_grid: with no cards the cards are built; otherwise the
\* order list becomes the keys of the cards and each card is made again with
\* its values.
rebuild_analysis_grid(c) ==
    IF c.param_cards = <<>> THEN build_analysis_cards(c)
    ELSE [c EXCEPT !.analysis_params_order = card_keys(c.param_cards)]

\* Mutant of handle_remove_card: the card goes, the order list keeps the name.
handle_remove_card_keeps_order(c, param_name) ==
    [c EXCEPT !.param_cards =
        SelectSeq(c.param_cards, LAMBDA card : card.param # param_name)]

\* handle_remove_card: the name leaves the dict and the order list.
handle_remove_card(c, param_name) ==
    [c EXCEPT !.param_cards =
        SelectSeq(c.param_cards, LAMBDA card : card.param # param_name),
              !.analysis_params_order =
        SelectSeq(c.analysis_params_order, LAMBDA p : p # param_name)]

\* reset_analysis
reset_analysis(c) ==
    build_analysis_cards(
        [c EXCEPT !.analysis_params_order = analysis_params_default])

\* obtain_jwt_tokens: a 200 stores both tokens and the name and enables the
\* three buttons; any other status, or no answer (status 0), changes only
\* the status label.
obtain_jwt_tokens(c, username, status, data) ==
    IF status = 200
    THEN [c EXCEPT !.access_token = data.access,
                   !.refresh_token = data.refresh,
                   !.logged_in_username = <<username>>,
                   !.btn_upload = TRUE, !.btn_refresh = TRUE,
                   !.btn_logout = TRUE]
    ELSE c

\* show_login_dialog with both fields filled in: after a successful
\* obtain_jwt_tokens the Logout button is enabled once more.
show_login_dialog(c, username, status, data) ==
    LET after == obtain_jwt_tokens(c, username, status, data)
    IN  IF status = 200 THEN [after EXCEPT !.btn_logout = TRUE] ELSE after

\* refresh_access_token: nothing without a refresh token; a 200 replaces the
\* access token; any other outcome changes nothing.
refresh_access_token(c, status, data) ==
    IF c.refresh_token = None THEN c
    ELSE IF status = 200 THEN [c EXCEPT !.access_token = data.access]
    ELSE c

\* Mutant of logout: the refresh token is kept.
logout_keeps_refresh(c) ==
    [c EXCEPT !.access_token = None,
              !.logged_in_username = None,
              !.btn_upload = FALSE, !.btn_refresh = FALSE,
              !.btn_logout = FALSE]

\* logout
logout(c) ==
    [c EXCEPT !.access_token = None, !.refresh_token = None,
              !.logged_in_username = None,
              !.btn_upload = FALSE, !.btn_refresh = FALSE,
              !.btn_logout = FALSE]

\* upload_csv after a file was chosen: a 200 or 201 stores the answer's
\* summary, id and preview rows and refreshes the panels; anything else
\* changes nothing.
upload_csv(c, status, data) ==
    IF status \in {200, 201}
    THEN update_ui_from_summary(
            [c EXCEPT !.current_summary = data.summary,
                      !.current_dataset_id = data.id,
                      !.current_preview = data.preview_rows])
    ELSE c

\* load_history_item: the same for a dataset picked from the history list.
load_history_item(c, pk, status, obj) ==
    IF status = 200
    THEN update_ui_from_summary(
            [c EXCEPT !.current_summary = obj.summary,
                      !.current_preview = obj.preview_rows,
                      !.current_dataset_id = pk])
    ELSE c

\* handle_download_pdf_click, the local branch (lines 1159-1187): the chart
\* type of every card, the current summary and preview, and the order list
\* go to generate_nice_pdf.
local_pdf_request(c, include) ==
    [to |-> "desktop", summary |-> c.current_summary,
     preview_rows |-> c.current_preview, include |-> include,
     chart_type |-> "bar",
     analysis_chart_types |->
        [k \in Range(card_keys(c.param_cards)) |-> "bar"],
     analysis_params_order |-> c.analysis_params_order,
     analysis_cfg |-> NoAnalysisCfg, fault |-> "none"]

handle_download_pdf_click(c, include) ==
    LET request == local_pdf_request(c, include)
    IN  IF nice_raises(request)
        THEN [pc |-> "done", fn |-> "generate_nice_pdf",
              request |-> request, pdf |-> FALSE, items |-> <<>>]
        ELSE [pc |-> "done", fn |-> "generate_nice_pdf",
              request |-> request, pdf |-> TRUE,
              items |-> generate_nice_pdf(request)]

\* What the server answers: token pairs numbered by the time of issue, and
\* the data of a dataset.
TokenPair(t) == [access |-> Num(t), refresh |-> Num(t)]
NoData == [access |-> None, refresh |-> None]

ClientData ==
    [id : {Num(1)},
     summary :
        [present : {TRUE}, averages : {Averages(Len(numeric_cols))},
         type_distribution : {<<Num(2), Num(2)>>},
         per_type_averages :
            {[k \in Range(numeric_cols) |-> <<Num(2), None>>],
             [k \in Range(numeric_cols) |->
                 IF k = PressureCol THEN <<Num(2)>> ELSE <<>>]}],
     preview_rows : {[rows |-> 3, cols |-> 5, dicts |-> TRUE]}]

ClientIncludes ==
    {t \in Toggles : t.summary /\ t.type_chart /\ t.preview_rows}

InitDesktop ==
    /\ EmptyStore
    /\ req = [r \in Req |-> IdleReq]
    /\ selected = NoFileCsv
    /\ chart = NoChart
    /\ doc = NoDoc
    /\ client = MainWindow

DesktopOnly ==
    UNCHANGED <<datasets, files, nextId, req, uploaded, response, selected,
                chart>>

\* A login the server accepts: /api/token/ answers 200 with a new pair.
LoginAccepted(username) ==
    /\ clock <= MaxTokens
    /\ client' = show_login_dialog(client, username, 200, TokenPair(clock))
    /\ clock' = clock + 1
    /\ UNCHANGED doc
    /\ DesktopOnly

\* A login that is refused (401) or gets no answer (0).
LoginFailed(username, status) ==
    /\ client' = show_login_dialog(client, username, status, NoData)
    /\ UNCHANGED <<clock, doc>>
    /\ DesktopOnly

RefreshAccepted ==
    /\ clock <= MaxTokens
    /\ client' = refresh_access_token(client, 200, TokenPair(clock))
    /\ clock' = IF client.refresh_token = None THEN clock ELSE clock + 1
    /\ UNCHANGED doc
    /\ DesktopOnly

RefreshFailed(status) ==
    /\ client' = refresh_access_token(client, status, NoData)
    /\ UNCHANGED <<clock, doc>>
    /\ DesktopOnly

Logout ==
    /\ client.btn_logout
    /\ client' = logout(client)
    /\ UNCHANGED <<clock, doc>>
    /\ DesktopOnly

\* The server answers an upload with 201 only to a request that carries an
\* access token.
UploadCsv(status, data) ==
    /\ client.btn_upload
    /\ status = 201 => client.access_token # None
    /\ client' = upload_csv(client, status, data)
    /\ UNCHANGED <<clock, doc>>
    /\ DesktopOnly

LoadHistoryItem(status, obj) ==
    /\ status = 200 => client.access_token # None
    /\ client' = load_history_item(client, obj.id, status, obj)
    /\ UNCHANGED <<clock, doc>>
    /\ DesktopOnly

\* ParameterCard.remove_card of a card on screen.
RemoveCard(param) ==
    /\ param \in Range(card_keys(client.param_cards))
    /\ client' = handle_remove_card(client, param)
    /\ UNCHANGED <<clock, doc>>
    /\ DesktopOnly

RebuildAnalysisGrid ==
    /\ client' = rebuild_analysis_grid(client)
    /\ UNCHANGED <<clock, doc>>
    /\ DesktopOnly

ResetAnalysis ==
    /\ client' = reset_analysis(client)
    /\ UNCHANGED <<clock, doc>>
    /\ DesktopOnly

DownloadLocalPdf(include) ==
    /\ doc' = handle_download_pdf_click(client, include)
    /\ UNCHANGED <<clock, client>>
    /\ DesktopOnly

FailedStatuses == {0, 401}

NextDesktop ==
    \/ \E u \in Users : LoginAccepted(u)
    \/ \E u \in Users, status \in FailedStatuses : LoginFailed(u, status)
    \/ RefreshAccepted
    \/ \E status \in FailedStatuses : RefreshFailed(status)
    \/ Logout
    \/ \E status \in {201} \cup FailedStatuses, data \in ClientData :
            UploadCsv(status, data)
    \/ \E status \in {200} \cup FailedStatuses, obj \in ClientData :
            LoadHistoryItem(status, obj)
    \/ \E param \in Range(numeric_cols) : RemoveCard(param)
    \/ RebuildAnalysisGrid
    \/ ResetAnalysis
    \/ \E include \in ClientIncludes : DownloadLocalPdf(include)

SpecDesktop == InitDesktop /\ [][NextDesktop]_vars

(***************************************************************************)
(* The cards and the order list.                                           *)
(***************************************************************************)
KeysAreOrder ==
    card_keys(client.param_cards) = client.analysis_params_order

\* The steps that build or change the cards.
LoadsDataset ==
    \/ \E data \in ClientData : UploadCsv(201, data)
    \/ \E obj \in ClientData : LoadHistoryItem(200, obj)

CardsStep ==
    \/ LoadsDataset
    \/ \E param \in Range(numeric_cols) : RemoveCard(param)
    \/ RebuildAnalysisGrid
    \/ ResetAnalysis

AnalysisDrawnFor(param) ==
    \E i \in DOMAIN doc.items :
        doc.items[i].section = "analysis" /\ doc.items[i].param = param

Removed(param) == param \notin Range(client.analysis_params_order)

\* C28: every load, removal, rebuild and reset leaves the keys of param_cards
\* equal to analysis_params_order, and no later step of the client separates
\* them; a local PDF has no analysis section for a parameter that is removed;
\* a load keeps the order list, so what was removed stays removed; and after
\* reset_analysis the order list and the cards are Flowrate, Pressure and
\* Temperature.
C28_CardsFollowOrderList ==
    [][/\ CardsStep => KeysAreOrder'
       /\ KeysAreOrder => KeysAreOrder'
       /\ (\E include \in ClientIncludes : DownloadLocalPdf(include)) =>
            \A param \in Range(numeric_cols) :
                Removed(param) => ~AnalysisDrawnFor(param)'
       /\ LoadsDataset =>
            client'.analysis_params_order = client.analysis_params_order
       /\ ResetAnalysis =>
            /\ client'.analysis_params_order = analysis_params_default
            /\ card_keys(client'.param_cards) = analysis_params_default]_vars

\* A parameter was removed, another dataset was loaded, and the local PDF
\* drawn afterwards has the analysis of a parameter that is still there.
C28_Witness ==
    /\ client.pc = "open"
    /\ Removed(FlowrateCol)
    /\ ~Removed(PressureCol)
    /\ KeysAreOrder
    /\ client.current_summary.present
    /\ doc.pc = "done"
    /\ doc.request.analysis_params_order = client.analysis_params_order
    /\ doc.request.include.analysis
    /\ AnalysisDrawnFor(PressureCol)
    /\ ~AnalysisDrawnFor(FlowrateCol)

(***************************************************************************)
(* The tokens and the buttons that need them.                              *)
(***************************************************************************)
HoldsAccessToken == client.access_token # None

AllEnabled == client.btn_upload /\ client.btn_refresh /\ client.btn_logout
NoneEnabled ==
    ~client.btn_upload /\ ~client.btn_refresh /\ ~client.btn_logout

Credentials ==
    <<client.access_token, client.refresh_token, client.logged_in_username>>

\* C29: Upload, Refresh History and Logout are enabled exactly when the
\* client holds an access token; logout leaves no access token, no refresh
\* token and no username; a failed login and a failed refresh leave all
\* three as they were.
C29_ButtonsFollowAccessToken ==
    /\ [](IF HoldsAccessToken THEN AllEnabled ELSE NoneEnabled)
    /\ [][/\ Logout => Credentials' = <<None, None, None>>
          /\ (\E u \in Users, status \in FailedStatuses :
                    LoginFailed(u, status)) => Credentials' = Credentials
          /\ (\E status \in FailedStatuses : RefreshFailed(status)) =>
                Credentials' = Credentials]_vars

\* After a login and a refresh the client is logged out again.
C29_Witness ==
    /\ client.pc = "open"
    /\ clock > 2
    /\ Credentials = <<None, None, None>>
    /\ NoneEnabled

(***************************************************************************)
(* The analysis sections of the ad-hoc report and include.analysis.        *)
(***************************************************************************)
\* The parameters of the analysis section headers, in the order drawn.
SectionParams ==
    LET headers == SelectSeq(doc.items,
                             LAMBDA item : item.section = "analysis"
                                            /\ item.kind = "header"
                                            /\ item.param # <<>>)
    IN  [i \in DOMAIN headers |-> headers[i].param]

\* Flowrate, Pressure and Temperature, those with per-type data.
ParamsWithDataInOrder ==
    SelectSeq(params_to_draw,
              LAMBDA param :
                get(doc.request.summary.per_type_averages, param) # <<>>)

AdhocAnalysisDrawn ==
    /\ doc.pc = "done"
    /\ doc.fn = "ReportFromSummaryView.post"
    /\ doc.status = 200
    /\ doc.request.include.analysis

\* C30: in a report of ReportFromSummaryView.post with analysis included, the
\* analysis sections are those of Flowrate, Pressure and Temperature that
\* have per-type data, in that order, whatever mode and parameter the
\* request names; no other column of per_type_averages has a section.
C30_AnalysisSectionsIgnoreMode ==
    AdhocAnalysisDrawn =>
        /\ SectionParams = ParamsWithDataInOrder
        /\ \A i \in DOMAIN doc.items :
                doc.items[i].section = "analysis" =>
                    doc.items[i].param \in Range(params_to_draw) \cup {<<>>}

\* Mode 'single' naming Pressure, a summary with per-type averages of
\* Flowrate and of another column: the one section drawn is Flowrate's.
C30_Witness ==
    /\ AdhocAnalysisDrawn
    /\ doc.request.analysis_cfg =
            [mode |-> "single", parameter |-> PressureCol]
    /\ OtherCol \in DOMAIN doc.request.summary.per_type_averages
    /\ SectionParams = <<FlowrateCol>>

=============================================================================
